---------------------------- MODULE Spec2Model ----------------------------
(***************************************************************************)
(* A model of the place-page extraction pipeline of restaurant_webscraper. *)
(*                                                                         *)
(* Two extractor classes are modelled side by side:                        *)
(*   variant "A" : GoogleMapsExtractorA of src/extractor.py                *)
(*   variant "B" : GoogleMapsExtractor  of src/test.py                     *)
(*                                                                         *)
(* The page is the environment: every element lookup, attribute read and   *)
(* script call has an outcome the environment picks.  Texts are sequences  *)
(* of one-character strings, so that strip, slicing, replace and the       *)
(* regular expressions of the source are computed character by character.  *)
(* An optional value (Python None or a value) is a sequence of length 0    *)
(* or 1.                                                                   *)
(***************************************************************************)
EXTENDS Integers, Sequences, FiniteSets, TLC

VARIABLES
  variant,          \* which extractor class the object is an instance of
  pc,               \* position of get_place_details
  driver,           \* self.driver: "none" or "live"
  created,          \* number of browser sessions created by this call
  quits,            \* number of driver.quit() invocations of this call
  result,           \* the record under construction (result / business_info)
  ret,              \* what the call returned: [kind, rec]
  excAt,            \* the step an exception escaped from ("none" if none)
  probe,            \* the candidate lookups of the latest field step
  missed,           \* fields whose selector candidates were all rejected
  cand,             \* index of the next candidate of the running candidate loop
  inner,            \* index of the next candidate of the nested (lowest-option) loop
  clicked,          \* the reviews tab was clicked
  total_count,      \* reviews_data['total_count'] of variant B
  sortState,        \* "none", "menu" (sort menu clicked), "lowest"
  page,             \* match lists of the three review-container selectors
  review_elements,  \* the node list the collector settled on
  idx,              \* number of nodes of review_elements[:pool] handled
  negatives,        \* the collected samples
  seen,             \* the dedupe keys
  lastNode,         \* the node handled last: its place in the pool, what
                    \* happened to it, the samples collected before it
  markup,           \* the page markup and date labels the estimator read
  first_date,       \* what _find_first_review_fast returned (optional text)
  collectRan,       \* number of runs of _extract_negative_reviews
  dateRan,          \* number of runs of _find_first_review_fast
  runs,             \* per run of it: the clock readings, the answer and its tier
  fixture           \* the answers of the page to the lookups of one field loop,
                    \* when they are fixed before the loop runs

vars == << variant, pc, driver, created, quits, result, ret, excAt,
           probe, missed, cand, inner, clicked, total_count, sortState, page, review_elements, idx,
           negatives, seen, lastNode, markup, first_date, collectRan, dateRan, runs, fixture >>

-----------------------------------------------------------------------------
(* Optional values and texts *)

None == << >>
Some(v) == << v >>
IsNone(o) == Len(o) = 0
Val(o) == o[1]

Rep(c, n) == [i \in 1..n |-> c]

UpperCase == << "A","B","C","D","E","F","G","H","I","J","K","L","M",
                "N","O","P","Q","R","S","T","U","V","W","X","Y","Z" >>
LowerCase == << "a","b","c","d","e","f","g","h","i","j","k","l","m",
                "n","o","p","q","r","s","t","u","v","w","x","y","z" >>
Digits == << "0","1","2","3","4","5","6","7","8","9" >>

\* re.IGNORECASE compares letters by their lower-case form
Lower(c) ==
  IF \E i \in 1..Len(UpperCase) : UpperCase[i] = c
  THEN LowerCase[CHOOSE i \in 1..Len(UpperCase) : UpperCase[i] = c]
  ELSE c

\* \d of the re module
IsDigit(c) == \E i \in 1..Len(Digits) : Digits[i] = c
DigitVal(c) == (CHOOSE i \in 1..Len(Digits) : Digits[i] = c) - 1
\* \s of the re module, and what str.strip() removes
IsSpace(c) == c = " "

\* str.strip()
RECURSIVE LStrip(_)
LStrip(s) == IF Len(s) > 0 /\ IsSpace(s[1]) THEN LStrip(Tail(s)) ELSE s
RECURSIVE RStrip(_)
RStrip(s) ==
  IF Len(s) > 0 /\ IsSpace(s[Len(s)]) THEN RStrip(SubSeq(s, 1, Len(s) - 1)) ELSE s
Strip(s) == RStrip(LStrip(s))

\* s[:n]
Prefix(s, n) == SubSeq(s, 1, IF Len(s) < n THEN Len(s) ELSE n)

\* s starts with pat at position i (1-based); fold = TRUE ignores case
StartsAt(s, i, pat, fold) ==
  /\ i + Len(pat) - 1 <= Len(s)
  /\ \A k \in 1..Len(pat) :
        IF fold THEN Lower(s[i + k - 1]) = Lower(pat[k]) ELSE s[i + k - 1] = pat[k]

\* pat in s
Contains(s, pat) == \E i \in 1..Len(s) : StartsAt(s, i, pat, FALSE)
ContainsFold(s, pat) == \E i \in 1..Len(s) : StartsAt(s, i, pat, TRUE)

\* s.replace(pat, rep): every non-overlapping occurrence, left to right
RECURSIVE Replace(_, _, _)
Replace(s, pat, rep) ==
  IF Len(s) = 0 THEN s
  ELSE IF StartsAt(s, 1, pat, FALSE)
       THEN rep \o Replace(SubSeq(s, Len(pat) + 1, Len(s)), pat, rep)
       ELSE << s[1] >> \o Replace(Tail(s), pat, rep)

\* first index >= i of s whose character is not white space (Len(s)+1 if none)
RECURSIVE SkipSpaces(_, _)
SkipSpaces(s, i) == IF i <= Len(s) /\ IsSpace(s[i]) THEN SkipSpaces(s, i + 1) ELSE i

\* int() of a string of decimal digits; [ok |-> FALSE] stands for ValueError
RECURSIVE DigitsValue(_, _)
DigitsValue(s, acc) ==
  IF Len(s) = 0 THEN acc ELSE DigitsValue(Tail(s), acc * 10 + DigitVal(s[1]))
ParseInt(s) ==
  IF Len(s) > 0 /\ \A i \in 1..Len(s) : IsDigit(s[i])
  THEN [ok |-> TRUE, val |-> DigitsValue(s, 0)]
  ELSE [ok |-> FALSE, val |-> 0]

-----------------------------------------------------------------------------
(* The parsers of the field extractor *)

W_review == << "r","e","v","i","e","w" >>
W_star == << "s","t","a","r" >>

\* the character class [\d,]
IsDigitOrComma(c) == IsDigit(c) \/ c = ","

\* first index >= i of s that is not in [\d,] / not in \d  (Len(s)+1 if none)
RECURSIVE CountRunEnd(_, _)
CountRunEnd(s, i) ==
  IF i <= Len(s) /\ IsDigitOrComma(s[i]) THEN CountRunEnd(s, i + 1) ELSE i
RECURSIVE DigitRunEnd(_, _)
DigitRunEnd(s, i) ==
  IF i <= Len(s) /\ IsDigit(s[i]) THEN DigitRunEnd(s, i + 1) ELSE i

\* re.search(r'([\d,]+)\s*review', s, re.IGNORECASE) matches starting at i.
\* [\d,], \s and the letter r are disjoint, so a match from i takes the whole
\* run of [\d,] from i and all the white space after it.
ReviewMatchAt(s, i) ==
  /\ IsDigitOrComma(s[i])
  /\ StartsAt(s, SkipSpaces(s, CountRunEnd(s, i)), W_review, TRUE)

\* group(1) of the leftmost match, as an optional text
ReviewGroup(s) ==
  IF \E i \in 1..Len(s) : ReviewMatchAt(s, i)
  THEN LET i == CHOOSE k \in 1..Len(s) :
                  ReviewMatchAt(s, k) /\ \A j \in 1..(k - 1) : ~ReviewMatchAt(s, j)
       IN  Some(SubSeq(s, i, CountRunEnd(s, i) - 1))
  ELSE None

\* _parse_int_from_aria(aria_text), aria_text an optional text:
\* raises |-> TRUE stands for the ValueError of int('')
ParseIntFromAria(aria) ==
  IF IsNone(aria) \/ Len(Val(aria)) = 0 THEN [raises |-> FALSE, val |-> None]
  ELSE LET g == ReviewGroup(Val(aria))
       IN  IF IsNone(g) THEN [raises |-> FALSE, val |-> None]
           ELSE LET n == ParseInt(Replace(Val(g), << "," >>, << >>))
                IN  IF n.ok THEN [raises |-> FALSE, val |-> Some(n.val)]
                    ELSE [raises |-> TRUE, val |-> None]

\* re.search(r'(\d+)\s*star', s, re.IGNORECASE): int(group(1)) as an optional
StarMatchAt(s, i) ==
  /\ IsDigit(s[i])
  /\ StartsAt(s, SkipSpaces(s, DigitRunEnd(s, i)), W_star, TRUE)
StarNumber(s) ==
  IF \E i \in 1..Len(s) : StarMatchAt(s, i)
  THEN LET i == CHOOSE k \in 1..Len(s) :
                  StarMatchAt(s, k) /\ \A j \in 1..(k - 1) : ~StarMatchAt(s, j)
       IN  Some(ParseInt(SubSeq(s, i, DigitRunEnd(s, i) - 1)).val)
  ELSE None

\* (a faulty check, for comparison: any non-empty text passes)
RatingPatternA_Any(t) == Len(t) > 0

\* re.match(r'^\d+(\.\d+)?$', t) of GoogleMapsExtractorA
RatingPatternA(t) ==
  LET e == DigitRunEnd(t, 1)
  IN  /\ e > 1
      /\ \/ e = Len(t) + 1
         \/ /\ e <= Len(t) /\ t[e] = "."
            /\ e + 1 <= Len(t)
            /\ DigitRunEnd(t, e + 1) = Len(t) + 1

\* re.match(r'^\d\.?\d?$', t) of GoogleMapsExtractor
RatingPatternB(t) ==
  /\ Len(t) >= 1 /\ IsDigit(t[1])
  /\ \/ Len(t) = 1
     \/ Len(t) = 2 /\ (t[2] = "." \/ IsDigit(t[2]))
     \/ Len(t) = 3 /\ t[2] = "." /\ IsDigit(t[3])

\* float(t.replace(',', '.')) for a text the rating pattern accepted:
\* the decimal as [whole, frac], frac the fraction digits without trailing
\* zeros (4.50 and 4.5 are the same float)
RECURSIVE DropTrailingZeros(_)
DropTrailingZeros(s) ==
  IF Len(s) > 0 /\ s[Len(s)] = "0"
  THEN DropTrailingZeros(SubSeq(s, 1, Len(s) - 1)) ELSE s
FloatOf(t) ==
  LET u == Replace(t, << "," >>, << "." >>)
      e == DigitRunEnd(u, 1)
  IN  [whole |-> ParseInt(SubSeq(u, 1, e - 1)).val,
       frac  |-> DropTrailingZeros(SubSeq(u, e + 1, Len(u)))]

\* a rating value r lies in the closed range [lo, hi] (lo, hi integers)
InRange(r, lo, hi) ==
  /\ r.whole >= lo
  /\ r.whole < hi \/ (r.whole = hi /\ Len(r.frac) = 0)

-----------------------------------------------------------------------------
(* Lookup outcomes.  A lookup that times out, finds nothing or raises is    *)
(* Gone; a found element carries its rendered text, the attribute the step *)
(* reads (None when the attribute is missing or reading it raises) and     *)
(* whether a script click on it succeeds.                                   *)

Gone == [found |-> FALSE, text |-> << >>, attr |-> None, click |-> FALSE]
TextEl(t) == [found |-> TRUE, text |-> t, attr |-> None, click |-> TRUE]
AttrEl(a) == [found |-> TRUE, text |-> << >>, attr |-> a, click |-> TRUE]
Button(a, c) == [found |-> TRUE, text |-> << >>, attr |-> a, click |-> c]

\* for sel in candidates: ... if accepted: break
\* acc[i] says whether candidate i would be accepted; the result is the
\* candidates consulted, in order, and the accepted one (0 if none)
RECURSIVE TryCandidates(_, _, _)
TryCandidates(acc, i, log) ==
  IF i > Len(acc) THEN [hit |-> 0, lookups |-> log]
  ELSE IF acc[i] THEN [hit |-> i, lookups |-> Append(log, i)]
       ELSE TryCandidates(acc, i + 1, Append(log, i))

FirstAccepted(acc) == TryCandidates(acc, 1, << >>)

W_maps_suffix == << " ","-"," ","G","o","o","g","l","e"," ","M","a","p","s" >>
W_address_colon == << "A","d","d","r","e","s","s",":" >>
W_address_colon_sp == << "A","d","d","r","e","s","s",":"," " >>
W_phone_colon == << "P","h","o","n","e",":" >>
W_phone_colon_sp == << "P","h","o","n","e",":"," " >>
W_copy_phone == << "C","o","p","y"," ","p","h","o","n","e"," ","n","u","m","b","e","r" >>

\* ---- name -------------------------------------------------------------
\* both variants: the candidate is accepted when its stripped text is not empty
NameAccepts(o) == o.found /\ Len(Strip(o.text)) > 0
NameValue(o) == Strip(o.text)

\* the title fallback; title is an optional text (None: the title is None)
TitleNameA(title) ==
  LET t == IF IsNone(title) THEN << >> ELSE Val(title)
  IN  IF Contains(t, W_maps_suffix)
      THEN Some(Strip(Replace(t, W_maps_suffix, << >>))) ELSE None
TitleNameB(title) ==
  IF ~IsNone(title) /\ Len(Val(title)) > 0 /\ Contains(Val(title), W_maps_suffix)
  THEN Some(Strip(Replace(Val(title), W_maps_suffix, << >>))) ELSE None

\* ---- rating -----------------------------------------------------------
\* A reads through _safe_find_text (stripped text, None when empty)
RatingAcceptsA(o) ==
  /\ o.found /\ Len(Strip(o.text)) > 0
  /\ RatingPatternA(Strip(Strip(o.text)))
RatingAcceptsB(o) ==
  /\ o.found /\ Len(Strip(o.text)) > 0
  /\ RatingPatternB(Strip(o.text))
RatingValue(o) == FloatOf(Strip(o.text))

\* ---- review count -----------------------------------------------------
\* A: if parsed: ...; a ValueError of the parser is swallowed by the loop
CountAcceptsA(o) ==
  /\ o.found
  /\ LET p == ParseIntFromAria(o.attr)
     IN  ~p.raises /\ ~IsNone(p.val) /\ Val(p.val) # 0
\* B: if aria_label and 'review' in aria_label.lower(): if match: ... break
CountAcceptsB(o) ==
  /\ o.found /\ ~IsNone(o.attr) /\ Len(Val(o.attr)) > 0
  /\ ContainsFold(Val(o.attr), W_review)
  /\ LET p == ParseIntFromAria(o.attr)
     IN  ~p.raises /\ ~IsNone(p.val)
CountValue(o) == Val(ParseIntFromAria(o.attr).val)

\* ---- address ----------------------------------------------------------
\* re.sub(r'Address:\s*', '', aria, flags=re.IGNORECASE)
RECURSIVE SubAddress(_)
SubAddress(s) ==
  IF Len(s) = 0 THEN s
  ELSE IF StartsAt(s, 1, W_address_colon, TRUE)
       THEN SubAddress(SubSeq(s, SkipSpaces(s, Len(W_address_colon) + 1), Len(s)))
       ELSE << s[1] >> \o SubAddress(Tail(s))
AddressAccepts(o) == o.found /\ ~IsNone(o.attr) /\ Len(Val(o.attr)) > 0
AddressValueA(o) == Strip(SubAddress(Val(o.attr)))
AddressValueB(o) == Strip(Replace(Val(o.attr), W_address_colon_sp, << >>))

\* ---- phone ------------------------------------------------------------
PhoneValueA(o) ==
  Strip(Replace(Replace(Val(o.attr), W_phone_colon, << >>), W_copy_phone, << >>))
PhoneValueB(o) ==
  Strip(Replace(Replace(Val(o.attr), W_phone_colon_sp, << >>), W_copy_phone, << >>))
PhoneAcceptsA(o) ==
  /\ o.found /\ ~IsNone(o.attr) /\ Len(Val(o.attr)) > 0
  /\ Len(PhoneValueA(o)) > 0
PhoneAcceptsB(o) == o.found /\ ~IsNone(o.attr) /\ Len(Val(o.attr)) > 0

\* ---- website ----------------------------------------------------------
\* A: if href: result['website'] = href;  B: website = get_attribute('href')
WebsiteAcceptsA(o) == o.found /\ ~IsNone(o.attr) /\ Len(Val(o.attr)) > 0
WebsiteAcceptsB(o) == o.found
WebsiteValueA(o) == Some(Val(o.attr))
WebsiteValueB(o) == o.attr

-----------------------------------------------------------------------------
(* The inputs of the field extractor *)

T_cafe == << "C","a","f","e" >>
NameOutcomes == { Gone, TextEl(<< " " >>), TextEl(<< " " >> \o T_cafe) }

\* driver.title: raising, None, or a text
TitleOutcomes ==
  { [raises |-> TRUE, title |-> None],
    [raises |-> FALSE, title |-> None],
    [raises |-> FALSE, title |-> Some(T_cafe \o W_maps_suffix)],
    [raises |-> FALSE, title |-> Some(T_cafe)] }

RatingTexts == { << " ","4",".","5","0"," " >>, << "N","/","A" >>, << "1","0" >> }
RatingOutcomes == { Gone } \cup { TextEl(t) : t \in RatingTexts }

CountLabels == { << "1",",","2","3","4"," ","R","e","v","i","e","w","s" >>,
                 << "n","o"," ","r","e","v","i","e","w","s" >>,
                 << ","," ","r","e","v","i","e","w","s" >>,
                 << "0"," ","r","e","v","i","e","w","s" >> }
CountOutcomes == { Gone, AttrEl(None) } \cup { AttrEl(Some(a)) : a \in CountLabels }

AddressOutcomes == { Gone, AttrEl(None), AttrEl(Some(<< "a","d","d","r","e","s","s",":"," "," ","1"," ","S","t" >>)) }
PhoneOutcomes == { Gone, AttrEl(None), AttrEl(Some(W_phone_colon_sp)),
                   AttrEl(Some(W_phone_colon_sp \o << "5","5","5"," " >> \o W_copy_phone)) }
WebsiteOutcomes == { Gone, AttrEl(None), AttrEl(Some(<< "x",".","i","o" >>)) }

-----------------------------------------------------------------------------
(* The record and the call *)

PlaceKeys == { "name", "address", "rating", "total_reviews", "phone", "website",
               "first_review_date", "recent_negative_reviews" }

DefaultResult ==
  [ name |-> None, address |-> None, rating |-> None, total_reviews |-> 0,
    phone |-> None, website |-> None, first_review_date |-> None,
    recent_negative_reviews |-> << >> ]

NoReturn == [kind |-> "none", keys |-> {}, rec |-> DefaultResult]
\* the candidates consulted by the running (or just finished) candidate loop,
\* in order, whether each was accepted, and the candidates a click was sent
\* to; the step that follows the loop clears it
NoProbe == [field |-> "none", lookups |-> << >>, acc |-> << >>, clicks |-> << >>]
NoNode == [at |-> 0, fate |-> "none", before |-> 0]
\* no answers fixed: every lookup draws its answer when it is made
NoFixture == [field |-> "none", answers |-> << >>]
NoMarkup == [reads |-> << FALSE, FALSE >>, ld |-> << >>, text |-> << >>, visible |-> None]

callVars == << variant, fixture, driver, created, quits, ret >>
collVars == << page, review_elements, idx, negatives, seen, lastNode, collectRan >>
dateVars == << markup, first_date, dateRan, runs >>
laterVars == << clicked, total_count, sortState, page, review_elements, idx, negatives,
                seen, lastNode, collectRan, markup, first_date, dateRan, runs >>

InitCommon ==
  /\ variant \in { "A", "B" }
  /\ fixture = NoFixture
  /\ result = DefaultResult /\ ret = NoReturn
  /\ excAt = "none"
  /\ probe = NoProbe /\ missed = {} /\ cand = 1 /\ inner = 1
  /\ clicked = FALSE /\ total_count = 0 /\ sortState = "none"
  /\ page = << >> /\ review_elements = << >> /\ idx = 0
  /\ negatives = << >> /\ seen = {} /\ lastNode = NoNode
  /\ markup = NoMarkup /\ first_date = None
  /\ collectRan = 0 /\ dateRan = 0 /\ runs = << >>

Init ==
  /\ InitCommon
  /\ pc = "start"
  /\ driver = "none" /\ created = 0 /\ quits = 0

\* an exception escapes the step and reaches the handler of get_place_details
Escapes(step) == pc' = "except" /\ excAt' = step

\* _setup_driver(): webdriver.Chrome(...) may raise before self.driver is
\* assigned; the WebDriverWait after it is the only statement that follows
SetupDriver ==
  /\ pc = "start"
  /\ \E outcome \in { "ok", "no_session", "after_session" } :
       /\ driver' = IF outcome = "no_session" THEN "none" ELSE "live"
       /\ created' = IF outcome = "no_session" THEN created ELSE created + 1
       /\ IF outcome = "ok" THEN pc' = "load" /\ excAt' = excAt ELSE Escapes("setup")
  /\ UNCHANGED << variant, fixture, quits, result, ret, probe, missed, cand, inner >>
  /\ UNCHANGED laterVars

\* self.driver.get(url); time.sleep(..)
LoadPage ==
  /\ pc = "load"
  /\ \E ok \in BOOLEAN :
       IF ok THEN pc' = "name" /\ excAt' = excAt ELSE Escapes("load")
  /\ UNCHANGED << result, probe, missed, cand, inner >>
  /\ UNCHANGED callVars
  /\ UNCHANGED laterVars

\* The pages of the model show at most MaxDetails of the detail fields: a
\* lookup may be answered by an acceptable element only while fewer than
\* MaxDetails of them are set.
MaxDetails == 2
DetailFields == { "name", "rating", "address", "phone", "website" }
FoundDetails == Cardinality({ f \in DetailFields : ~IsNone(result[f]) })
MayFind(accepted) == accepted => FoundDetails < MaxDetails

\* the answers candidate cand of the loop of `field` can get: the one fixed
\* for it, or any of outcomes
Answers(field, outcomes) ==
  IF fixture.field = field THEN { fixture.answers[cand] } ELSE outcomes

\* ---- the candidate loop ---------------------------------------------------
\* for sel in SELECTORS[..]: <look up>; if <accepted>: ...; break
\* what the loop does after looking up candidate i of n
\* (a faulty loop, for comparison: it goes on after an accepted candidate)
LoopNext_NoBreak(accepted, i, n) ==
  IF i < n THEN "continue" ELSE IF accepted THEN "break" ELSE "exhausted"
LoopNext(accepted, i, n) ==
  IF accepted THEN "break" ELSE IF i < n THEN "continue" ELSE "exhausted"

\* the lookup of candidate cand of the loop of `field`, recorded
Looked(field, accepted) ==
  probe' = IF probe.field = field
           THEN [probe EXCEPT !.lookups = Append(@, cand), !.acc = Append(@, accepted)]
           ELSE [field |-> field, lookups |-> << cand >>, acc |-> << accepted >>,
                 clicks |-> << >>]

\* one candidate of a field loop of n candidates: the pc and the candidate
\* index afterwards; a field whose loop ends with no candidate accepted is
\* recorded in missed
FieldLoop(field, accepted, n, after, afterMiss) ==
  LET next == LoopNext(accepted, cand, n)
  IN  /\ Looked(field, accepted)
      /\ cand' = IF next = "continue" THEN cand + 1 ELSE 1
      /\ pc' = IF next = "continue" THEN pc
               ELSE IF next = "break" THEN after
               ELSE afterMiss
      /\ missed' = IF next = "exhausted" /\ ~(\E i \in 1..Len(probe'.acc) : probe'.acc[i])
                   THEN missed \cup { field } ELSE missed

NameCandidates == 3
RatingCandidates == 2
CountCandidates == 3
PhoneCandidates == 2
OpenCandidates == 3
SortCandidatesA == 2
SortCandidatesB == 3
LowestCandidates == 2

\* NAME: one candidate of the loop
ExtractName ==
  /\ pc = "name"
  /\ \E o \in NameOutcomes :
       /\ MayFind(NameAccepts(o))
       /\ FieldLoop("name", NameAccepts(o), NameCandidates, "rating", "title")
       /\ result' = IF NameAccepts(o) THEN [result EXCEPT !.name = Some(NameValue(o))]
                    ELSE result
  /\ UNCHANGED << excAt, inner >>
  /\ UNCHANGED callVars
  /\ UNCHANGED laterVars

\* if not result['name']: the title fallback.  In A the title is read outside
\* any try; in B the whole name block sits in try/except: pass.
TitleName(v, title) == IF v = "A" THEN TitleNameA(title) ELSE TitleNameB(title)

NameFromTitle ==
  /\ pc = "title"
  /\ IF ~IsNone(result.name) /\ Len(Val(result.name)) > 0
     THEN result' = result /\ pc' = "rating" /\ excAt' = excAt
     ELSE \E t \in TitleOutcomes :
            /\ MayFind(~t.raises /\ ~IsNone(TitleName(variant, t.title)))
            /\ IF t.raises
               THEN /\ result' = result
                    /\ IF variant = "A" THEN Escapes("title")
                       ELSE pc' = "rating" /\ excAt' = excAt
               ELSE /\ result' = [result EXCEPT !.name =
                                    IF IsNone(TitleName(variant, t.title))
                                    THEN @ ELSE TitleName(variant, t.title)]
                    /\ pc' = "rating" /\ excAt' = excAt
  /\ probe' = NoProbe
  /\ UNCHANGED << missed, cand, inner >>
  /\ UNCHANGED callVars
  /\ UNCHANGED laterVars

\* RATING: one candidate of the loop
ExtractRating ==
  /\ pc = "rating"
  /\ \E o \in Answers("rating", RatingOutcomes) :
       LET accepted == IF variant = "A" THEN RatingAcceptsA(o) ELSE RatingAcceptsB(o)
       IN  /\ MayFind(accepted)
           /\ FieldLoop("rating", accepted, RatingCandidates, "count", "count")
           /\ result' = IF accepted THEN [result EXCEPT !.rating = Some(RatingValue(o))]
                        ELSE result
  /\ UNCHANGED << excAt, inner >>
  /\ UNCHANGED callVars
  /\ UNCHANGED laterVars

\* TOTAL REVIEWS from the aria-label of the review button: one candidate
ExtractReviewCount ==
  /\ pc = "count"
  /\ \E o \in Answers("total_reviews", CountOutcomes) :
       LET accepted == IF variant = "A" THEN CountAcceptsA(o) ELSE CountAcceptsB(o)
           after == IF variant = "A" THEN "address" ELSE "count_more"
       IN  /\ FieldLoop("total_reviews", accepted, CountCandidates, after, after)
           /\ result' = IF accepted THEN [result EXCEPT !.total_reviews = CountValue(o)]
                        ELSE result
  /\ UNCHANGED << excAt, inner >>
  /\ UNCHANGED callVars
  /\ UNCHANGED laterVars

\* B only, methods 2 to 5 of the review count.  Each method's input is the
\* sequence of numbers its pattern reads off the page, in order (empty when
\* the element is missing, nothing matches or the conversion raises).
PlausibleMin == 1
PlausibleMax == 1000000
Plausible(n) == PlausibleMin <= n /\ n <= PlausibleMax
FirstPlausible(ns) ==
  IF \E i \in 1..Len(ns) : Plausible(ns[i])
  THEN ns[CHOOSE i \in 1..Len(ns) : Plausible(ns[i]) /\ \A j \in 1..(i - 1) : ~Plausible(ns[j])]
  ELSE 0
CountFallbackB(total, m2, m3, m4, m5) ==
  LET t2 == IF total = 0 /\ Len(m2) > 0 THEN m2[1] ELSE total
      t3 == IF t2 = 0 /\ Len(m3) > 0 THEN m3[1] ELSE t2
      t4 == IF t3 = 0 THEN FirstPlausible(m4) ELSE t3
      t5 == IF t4 = 0 THEN FirstPlausible(m5) ELSE t4
  IN  t5
TextNumbers == { << >>, << 0 >>, << 89 >> }
ScannedNumbers == { << >>, << 0 >>, << PlausibleMax + 1, 89 >> }

ExtractReviewCountMore ==
  /\ pc = "count_more" /\ variant = "B"
  /\ \E m2 \in TextNumbers, m3 \in TextNumbers, m4 \in ScannedNumbers, m5 \in ScannedNumbers :
       result' = [result EXCEPT !.total_reviews = CountFallbackB(@, m2, m3, m4, m5)]
  /\ pc' = "address"
  /\ UNCHANGED << probe, missed, excAt, cand, inner >>
  /\ UNCHANGED callVars
  /\ UNCHANGED laterVars

\* ADDRESS: a single selector
ExtractAddress ==
  /\ pc = "address"
  /\ \E o \in AddressOutcomes :
       /\ MayFind(AddressAccepts(o))
       /\ FieldLoop("address", AddressAccepts(o), 1, "phone", "phone")
       /\ result' = IF AddressAccepts(o)
                    THEN [result EXCEPT !.address =
                            Some(IF variant = "A" THEN AddressValueA(o) ELSE AddressValueB(o))]
                    ELSE result
  /\ UNCHANGED << excAt, inner >>
  /\ UNCHANGED callVars
  /\ UNCHANGED laterVars

\* PHONE: one candidate of the loop
ExtractPhone ==
  /\ pc = "phone"
  /\ \E o \in PhoneOutcomes :
       LET accepted == IF variant = "A" THEN PhoneAcceptsA(o) ELSE PhoneAcceptsB(o)
       IN  /\ MayFind(accepted)
           /\ FieldLoop("phone", accepted, PhoneCandidates, "website", "website")
           /\ result' = IF accepted
                        THEN [result EXCEPT !.phone =
                                Some(IF variant = "A" THEN PhoneValueA(o) ELSE PhoneValueB(o))]
                        ELSE result
  /\ UNCHANGED << excAt, inner >>
  /\ UNCHANGED callVars
  /\ UNCHANGED laterVars

\* WEBSITE: a single selector
ExtractWebsite ==
  /\ pc = "website"
  /\ \E o \in WebsiteOutcomes :
       LET accepted == IF variant = "A" THEN WebsiteAcceptsA(o) ELSE WebsiteAcceptsB(o)
       IN  /\ MayFind(accepted)
           /\ FieldLoop("website", accepted, 1, "open", "open")
           /\ result' = IF accepted
                        THEN [result EXCEPT !.website =
                                IF variant = "A" THEN WebsiteValueA(o) ELSE WebsiteValueB(o)]
                        ELSE result
  /\ UNCHANGED << excAt, inner >>
  /\ UNCHANGED callVars
  /\ UNCHANGED laterVars

-----------------------------------------------------------------------------
(* The review-panel navigator *)

L_open_89 == << "8","9"," ","r","e","v","i","e","w","s" >>
L_open_comma == << ","," ","r","e","v","i","e","w","s" >>
OpenOutcomes ==
  { Gone, Button(None, TRUE),
    Button(Some(L_open_89), TRUE), Button(Some(L_open_89), FALSE),
    Button(Some(L_open_comma), TRUE) }

\* One candidate of the reviews-tab loop.
\* A: btn = _safe_find_element(..); if btn: parse the label (a ValueError of
\*    the parser skips the rest of the iteration), keep the count if none is
\*    known, click, clicked = True, break; except: continue
\* B: the same with wait.until(element_to_be_clickable); the count goes to
\*    reviews_data['total_count'] whenever the label matches
OpenStep(v, o, total) ==
  LET label == IF IsNone(o.attr) THEN Some(<< >>) ELSE o.attr
      p == ParseIntFromAria(label)
      sent == o.found /\ ~p.raises
  IN  [sent |-> sent,
       clicked |-> sent /\ o.click,
       total |-> IF ~sent \/ IsNone(p.val) THEN total
                 ELSE IF v = "A" THEN (IF Val(p.val) # 0 /\ total = 0 THEN Val(p.val) ELSE total)
                 ELSE Val(p.val)]

OpenReviews ==
  /\ pc = "open"
  /\ \E o \in OpenOutcomes :
       LET st == OpenStep(variant, o, IF variant = "A" THEN result.total_reviews ELSE total_count)
           next == LoopNext(st.clicked, cand, OpenCandidates)
       IN  /\ probe' = IF probe.field = "open"
                       THEN [probe EXCEPT !.lookups = Append(@, cand),
                                          !.acc = Append(@, o.found),
                                          !.clicks = IF st.sent THEN Append(@, cand) ELSE @]
                       ELSE [field |-> "open", lookups |-> << cand >>, acc |-> << o.found >>,
                             clicks |-> IF st.sent THEN << cand >> ELSE << >>]
           /\ clicked' = st.clicked
           /\ result' = IF variant = "A" THEN [result EXCEPT !.total_reviews = st.total]
                        ELSE result
           /\ total_count' = IF variant = "A" THEN total_count ELSE st.total
           /\ cand' = IF next = "continue" THEN cand + 1 ELSE 1
           /\ pc' = IF next = "continue" THEN pc
                    ELSE IF variant = "B" /\ ~st.clicked THEN "merge"
                    ELSE "sort"
  /\ UNCHANGED << missed, excAt, inner, sortState >>
  /\ UNCHANGED callVars
  /\ UNCHANGED collVars
  /\ UNCHANGED dateVars

SortOutcomes == { Gone, Button(None, TRUE), Button(None, FALSE) }
SortCandidates(v) == IF v = "A" THEN SortCandidatesA ELSE SortCandidatesB

\* where get_place_details (A) / _extract_reviews_with_sorting (B) goes on
\* after the sort loop, sorted or not: to the collector
\* (a faulty sequel, for comparison: without the sort the collector is skipped)
AfterSort_OnlyIfSorted(sorted) == IF sorted THEN "collect" ELSE "date"
AfterSort(sorted) == "collect"

\* One candidate of the sort-menu loop: found and clicked, the lowest-option
\* loop starts; not found, or the click raises: the next candidate
SortReviews ==
  /\ pc = "sort"
  /\ \E o \in SortOutcomes :
       IF o.found /\ o.click
       THEN /\ sortState' = "menu"
            /\ pc' = "lowest" /\ cand' = cand /\ inner' = 1
       ELSE /\ sortState' = sortState
            /\ inner' = inner
            /\ IF cand < SortCandidates(variant)
               THEN pc' = pc /\ cand' = cand + 1
               ELSE pc' = AfterSort(FALSE) /\ cand' = 1
  /\ probe' = NoProbe
  /\ UNCHANGED << result, missed, excAt, clicked, total_count >>
  /\ UNCHANGED callVars
  /\ UNCHANGED collVars
  /\ UNCHANGED dateVars

\* One candidate of the lowest-option loop.  A click that raises is caught
\* in A by the try around the sort candidate (continue with the next sort
\* candidate), in B by the try around the option (continue with the next
\* option).  When the option loop ends, break leaves the sort loop.
SelectLowest ==
  /\ pc = "lowest"
  /\ \E o \in SortOutcomes :
       IF o.found /\ o.click
       THEN sortState' = "lowest" /\ pc' = AfterSort(TRUE) /\ cand' = 1 /\ inner' = 1
       ELSE IF o.found /\ variant = "A"
       THEN /\ sortState' = sortState /\ inner' = 1
            /\ IF cand < SortCandidates(variant)
               THEN pc' = "sort" /\ cand' = cand + 1
               ELSE pc' = AfterSort(FALSE) /\ cand' = 1
       ELSE /\ sortState' = sortState
            /\ IF inner < LowestCandidates
               THEN pc' = pc /\ cand' = cand /\ inner' = inner + 1
               ELSE pc' = AfterSort(FALSE) /\ cand' = 1 /\ inner' = 1
  /\ UNCHANGED << result, probe, missed, excAt, clicked, total_count >>
  /\ UNCHANGED callVars
  /\ UNCHANGED collVars
  /\ UNCHANGED dateVars

-----------------------------------------------------------------------------
(* The negative-review collector *)

NEGATIVE_REVIEW_LIMIT == 10
PoolLimitA == 30
PoolLimitB == 15
MinTextLenA == 15
MinTextLenB == 15
KeyPrefixA == 80
KeyPrefixB == 50
NegativeMaxRating == 2
DefaultRating == 1

T_recent == << "R","e","c","e","n","t" >>

\* str(n) for n >= 0
RECURSIVE IntText(_)
IntText(n) == IF n < 10 THEN << Digits[n + 1] >> ELSE IntText(n \div 10) \o << Digits[(n % 10) + 1] >>

\* A review node: stars is None when find_elements raises, else the
\* aria-labels (optional texts) of the node's icons in order; texts and dates
\* are the lookups of the text and date selectors (Gone when find_element
\* raises, as it does for an absent element); expand is what the step of the
\* "more" button does: "none" (no displayed button), "clicked", or "raises"
\* (the lookup or the click raises, which the step's handlers swallow).

\* A: the first icon whose label matches '(\d+)\s*star'; None if undetectable
RECURSIVE FirstStarA(_, _)
FirstStarA(icons, i) ==
  IF i > Len(icons) THEN None
  ELSE LET m == StarNumber(IF IsNone(icons[i]) THEN << >> ELSE Val(icons[i]))
       IN  IF ~IsNone(m) THEN m ELSE FirstStarA(icons, i + 1)
DetectRatingA(node) == IF IsNone(node.stars) THEN None ELSE FirstStarA(Val(node.stars), 1)

\* B: the label must also contain 'star'
RECURSIVE FirstStarB(_, _)
FirstStarB(icons, i) ==
  IF i > Len(icons) THEN None
  ELSE LET a == icons[i]
           m == IF ~IsNone(a) /\ Len(Val(a)) > 0 /\ ContainsFold(Val(a), W_star)
                THEN StarNumber(Val(a)) ELSE None
       IN  IF ~IsNone(m) THEN m ELSE FirstStarB(icons, i + 1)
DetectRatingB(node) == IF IsNone(node.stars) THEN None ELSE FirstStarB(Val(node.stars), 1)

\* A: if rating is None: rating = 1
\* (a faulty default, for comparison: an undetectable rating counts as 3)
RatingOrDefaultA_Three(d) == IF IsNone(d) THEN NegativeMaxRating + 1 ELSE Val(d)
RatingOrDefaultA(d) == IF IsNone(d) THEN DefaultRating ELSE Val(d)
\* B: if not rating: rating = 1 (and rating = 1 in the except branch)
RatingOrDefaultB(d) == IF IsNone(d) \/ Val(d) = 0 THEN DefaultRating ELSE Val(d)

NodeRating(v, node) ==
  IF v = "A" THEN RatingOrDefaultA(DetectRatingA(node))
  ELSE RatingOrDefaultB(DetectRatingB(node))

\* if rating > 2: continue
IsNegative(rating) == rating <= NegativeMaxRating

\* the first selector whose element has a non-empty stripped text
FirstText(outs) ==
  LET r == FirstAccepted([i \in 1..Len(outs) |-> outs[i].found /\ Len(Strip(outs[i].text)) > 0])
  IN  IF r.hit = 0 THEN None ELSE Some(Strip(outs[r.hit].text))

\* A: if not text or len(text) < 15: continue
TextKeptA(text) == ~IsNone(text) /\ Len(Val(text)) >= MinTextLenA
\* B: if text and len(text) > 15:
TextKeptB(text) == ~IsNone(text) /\ Len(Val(text)) > MinTextLenB
TextKept(v, text) == IF v = "A" THEN TextKeptA(text) ELSE TextKeptB(text)

\* A: h = (text[:80], rating)
DedupeKeyA(text, rating) == << Prefix(text, KeyPrefixA), rating >>
\* B: review_hash = f"{text[:50]}_{rating}"
DedupeKeyB(text, rating) == Prefix(text, KeyPrefixB) \o << "_" >> \o IntText(rating)
DedupeKey(v, text, rating) ==
  IF v = "A" THEN DedupeKeyA(text, rating) ELSE DedupeKeyB(text, rating)

\* if len(negatives) >= NEGATIVE_REVIEW_LIMIT: break
\* (a faulty cap, for comparison: it stops one sample late)
CapReached_Late(n) == n > NEGATIVE_REVIEW_LIMIT
CapReached(n) == n >= NEGATIVE_REVIEW_LIMIT

\* review_elements[:30] / review_elements[:15]
PoolLimit(v) == IF v = "A" THEN PoolLimitA ELSE PoolLimitB
\* (a faulty pool, for comparison: every node found is handled)
Pool_All(v, elems) == elems
Pool(v, elems) == Prefix(elems, PoolLimit(v))

\* (a faulty choice, for comparison: on a tie the later selector wins)
RECURSIVE MostHits_LastOnTie(_, _, _)
MostHits_LastOnTie(containers, i, best) ==
  IF i > Len(containers) THEN best
  ELSE IF ~IsNone(containers[i]) /\ Len(Val(containers[i])) >= Len(best)
       THEN MostHits_LastOnTie(containers, i + 1, Val(containers[i]))
       ELSE MostHits_LastOnTie(containers, i + 1, best)

\* choose the selector with most hits: strictly more than the best so far
RECURSIVE MostHits(_, _, _)
MostHits(containers, i, best) ==
  IF i > Len(containers) THEN best
  ELSE IF ~IsNone(containers[i]) /\ Len(Val(containers[i])) > Len(best)
       THEN MostHits(containers, i + 1, Val(containers[i]))
       ELSE MostHits(containers, i + 1, best)

Sample(text, rating, date) ==
  [text |-> text, rating |-> rating, date |-> IF IsNone(date) THEN T_recent ELSE Val(date)]

\* _extract_negative_reviews, up to the node loop: scroll the container,
\* pick the container selector with most hits.  In A a failing scroll only
\* ends the scrolling; in B it is caught by the method's outer try, which
\* returns the (still empty) list.
CollectBegin(pages) ==
  /\ pc = "collect"
  /\ \E pg \in pages :
       LET aborted == variant = "B" /\ pg.scroll = "raises"
           elems == IF aborted THEN << >> ELSE MostHits(pg.containers, 1, << >>)
       IN  /\ page' = pg
           /\ review_elements' = elems
           /\ pc' = IF Len(Pool(variant, elems)) = 0 THEN "collected" ELSE "nodes"
  /\ idx' = 0 /\ negatives' = << >> /\ seen' = {} /\ lastNode' = NoNode
  /\ collectRan' = collectRan + 1
  /\ UNCHANGED << result, probe, missed, cand, inner, excAt, clicked, total_count, sortState,
                  markup, first_date, dateRan, runs >>
  /\ UNCHANGED callVars

\* where the node loop goes after node i of n, with count samples: a node
\* that was skipped (continue, also from the handler around the iteration)
\* goes to the next node; the cap is tested after an append only
\* (a faulty loop, for comparison: a skipped node ends the loop)
NodeLoopNext_StopsOnSkip(added, count, i, n) ==
  IF ~added \/ CapReached(count) \/ i = n THEN "collected" ELSE "nodes"
NodeLoopNext(added, count, i, n) ==
  IF (added /\ CapReached(count)) \/ i = n THEN "collected" ELSE "nodes"

\* one iteration of the node loop
NodeFate(v, node, keys) ==
  LET rating == NodeRating(v, node)
      text == FirstText(node.texts)
  IN  IF ~IsNegative(rating) THEN "positive"
      ELSE IF ~TextKept(v, text) THEN "short"
      ELSE IF DedupeKey(v, Val(text), rating) \in keys THEN "duplicate"
      ELSE "added"

CollectNode ==
  /\ pc = "nodes"
  /\ LET pool == Pool(variant, review_elements)
         node == pool[idx + 1]
         rating == NodeRating(variant, node)
         text == FirstText(node.texts)
         date == FirstText(node.dates)
         fate == NodeFate(variant, node, seen)
         added == fate = "added"
     IN  /\ negatives' = IF added THEN Append(negatives, Sample(Val(text), rating, date))
                         ELSE negatives
         /\ seen' = IF added THEN seen \cup { DedupeKey(variant, Val(text), rating) } ELSE seen
         /\ lastNode' = [at |-> idx + 1, fate |-> fate, before |-> Len(negatives)]
         /\ idx' = idx + 1
         /\ pc' = NodeLoopNext(added, Len(negatives'), idx + 1, Len(pool))
  /\ UNCHANGED << result, probe, missed, cand, inner, excAt, clicked, total_count, sortState, page,
                  review_elements, markup, first_date, collectRan, dateRan, runs >>
  /\ UNCHANGED callVars

\* return negatives
\* (a faulty return, for comparison: the date estimation is left out)
CollectReturn_SkipsDate ==
  /\ pc = "collected"
  /\ result' = IF variant = "A" THEN [result EXCEPT !.recent_negative_reviews = negatives]
               ELSE result
  /\ pc' = IF variant = "A" THEN "assemble" ELSE "merge"
  /\ UNCHANGED << probe, missed, cand, inner, excAt >>
  /\ UNCHANGED callVars
  /\ UNCHANGED laterVars

\* return negatives, to get_place_details (A) / _extract_reviews_with_sorting (B)
CollectReturn ==
  /\ pc = "collected"
  /\ result' = IF variant = "A" THEN [result EXCEPT !.recent_negative_reviews = negatives]
               ELSE result
  /\ pc' = "date"
  /\ UNCHANGED << probe, missed, cand, inner, excAt >>
  /\ UNCHANGED callVars
  /\ UNCHANGED laterVars

\* ---- the review nodes of the model ----------------------------------------
Stars(label) == Some(<< Some(label) >>)
NoIcon == Some(<< >>)
L_0 == << "0"," ","s","t","a","r","s" >>
L_1 == << "1"," ","s","t","a","r" >>
L_2 == << "2"," ","S","t","a","r","s" >>
L_3 == << "3"," ","s","t","a","r","s" >>
L_guide == << "L","o","c","a","l"," ","G","u","i","d","e" >>
T_2y == << "2"," ","y","e","a","r","s"," ","a","g","o" >>

Node(stars, text, date) ==
  [stars |-> stars, expand |-> "none",
   texts |-> << TextEl(text), Gone, Gone >>,
   dates |-> IF IsNone(date) THEN << Gone, Gone >> ELSE << TextEl(Val(date)), Gone >>]

Body(c, n) == Rep(c, n)
\* texts sharing their first KeyPrefixA (KeyPrefixB) characters, differing after
LongX == Body("b", KeyPrefixA) \o << "x" >>
LongY == Body("b", KeyPrefixA) \o << "y" >>
MidX == Body("c", KeyPrefixB) \o << "x" >> \o Body("c", KeyPrefixA - KeyPrefixB)
MidY == Body("c", KeyPrefixB) \o << "y" >> \o Body("c", KeyPrefixA - KeyPrefixB)

NodeKinds ==
  { [Node(Some(<< Some(L_guide), Some(L_2) >>), LongX, Some(T_2y)) EXCEPT !.expand = "clicked"],
    Node(Stars(L_2), LongY, None),
    Node(Stars(L_1), LongX, None),
    Node(Stars(L_3), Body("a", MinTextLenA + 1), None),
    Node(NoIcon, << " " >> \o Body("a", MinTextLenA) \o << " " >>, None),
    [Node(None, Body("a", MinTextLenA + 1), Some(T_2y)) EXCEPT !.expand = "raises"],
    Node(Some(<< None, Some(L_guide) >>), Body("e", MinTextLenA + 1), None),
    Node(Stars(L_0), Body("f", MinTextLenA + 1), None),
    Node(Stars(L_1), Body("a", MinTextLenA - 1), None),
    [stars |-> Stars(L_1), expand |-> "raises",
     texts |-> << Gone, Gone, Gone >>, dates |-> << Gone, Gone >>],
    [stars |-> Stars(L_1), expand |-> "none",
     texts |-> << TextEl(<< " " >>), Gone, TextEl(Body("g", MinTextLenA)) >>,
     dates |-> << Gone, TextEl(T_2y) >>] }

\* ---- the pages of the model ------------------------------------------------
MaxNodes == 2

SeqsUpTo(S, n) == UNION { [1..k -> S] : k \in 0..n }

\* node i of a list of pairwise different negative reviews
EligibleNode(i) == Node(Stars(L_1), Body("d", MinTextLenA + 1) \o IntText(i), None)
Eligible(n) == [i \in 1..n |-> EligibleNode(i)]
PositiveNode == Node(Stars(L_3), Body("a", MinTextLenA + 1), None)

LongLists ==
  { Eligible(n) : n \in { NEGATIVE_REVIEW_LIMIT - 1, NEGATIVE_REVIEW_LIMIT,
                          NEGATIVE_REVIEW_LIMIT + 1, PoolLimitA, PoolLimitA + 1 } }
  \cup { Rep(PositiveNode, n) \o Eligible(2) : n \in { PoolLimitB - 1, PoolLimitB,
                                                        PoolLimitA - 1, PoolLimitA } }
  \cup { Rep(EligibleNode(1), NEGATIVE_REVIEW_LIMIT) \o Eligible(NEGATIVE_REVIEW_LIMIT + 1) }
  \cup { << Node(Stars(L_2), MidX, None), Node(Stars(L_2), MidY, None) >>,
          << Node(Stars(L_2), MidX, None), Node(Stars(L_2), MidY, None),
             Node(Stars(L_2), MidY, Some(T_2y)) >> }

Front(l) == IF Len(l) = 0 THEN l ELSE SubSeq(l, 1, Len(l) - 1)
ScrollOutcomes == { "absent", "ok", "raises" }
\* the nodes under the first container selector, whatever the scroll does, or
\* under the third with fewer under the second, or two nodes under the second
\* and the same two in the other order under the third
PagesOf(lists) ==
  { [scroll |-> sc, containers |-> << Some(l), Some(<< >>), None >>] :
      sc \in ScrollOutcomes, l \in lists }
  \cup { [scroll |-> "ok", containers |-> << None, Some(Front(l)), Some(l) >>] :
           l \in lists }
  \cup { [scroll |-> "ok", containers |-> << None, Some(l), Some(<< l[2], l[1] >>) >>] :
           l \in { x \in lists : Len(x) = 2 /\ x[1] # x[2] } }

CollectorPages == PagesOf(SeqsUpTo(NodeKinds, MaxNodes) \cup LongLists)

PipelinePages ==
  { [scroll |-> "ok", containers |-> << Some(l), Some(<< >>), None >>] :
      l \in { << >>, << EligibleNode(1), PositiveNode >> } }

-----------------------------------------------------------------------------
(* The first-review-date estimator *)

DaysPerYear == 365
DaysPerMonth == 30
MinutesPerDay == 24 * 60
W_year == << "y","e","a","r" >>
W_month == << "m","o","n","t","h" >>
W_week == << "w","e","e","k" >>
W_ago == << "a","g","o" >>
T_year == << " ","y","e","a","r" >>
T_month == << " ","m","o","n","t","h" >>
T_week == << " ","w","e","e","k" >>
T_ago == << " ","a","g","o" >>
T_recently == << "R","e","c","e","n","t","l","y" >>
T_several == << "S","e","v","e","r","a","l"," ","y","e","a","r","s"," ","a","g","o" >>
T_Z == << "Z" >>
T_utc == << "+","0","0",":","0","0" >>

\* the characters of the date strings in code-point order: Python compares
\* strings character by character by code point
CodeOrder == << " ", "+", ",", "-", ".", "/" >> \o Digits \o << ":" >> \o UpperCase
             \o << "_" >> \o LowerCase
Ord(c) == CHOOSE i \in 1..Len(CodeOrder) : CodeOrder[i] = c

\* s < t on str
RECURSIVE LexLess(_, _)
LexLess(s, t) ==
  IF Len(t) = 0 THEN FALSE
  ELSE IF Len(s) = 0 THEN TRUE
  ELSE IF s[1] = t[1] THEN LexLess(Tail(s), Tail(t))
  ELSE Ord(s[1]) < Ord(t[1])

\* min(dates) on a non-empty list of str: the first least element
RECURSIVE MinFrom(_, _, _)
MinFrom(ts, i, best) ==
  IF i > Len(ts) THEN best
  ELSE MinFrom(ts, i + 1, IF LexLess(ts[i], best) THEN ts[i] ELSE best)
MinText(ts) == MinFrom(ts, 2, ts[1])

\* the proleptic Gregorian calendar of datetime
IsLeap(y) == (y % 4 = 0) /\ ((y % 100 # 0) \/ (y % 400 = 0))
DaysBeforeMonth == << 0, 31, 59, 90, 120, 151, 181, 212, 243, 273, 304, 334 >>
DaysInMonth(y, mo) ==
  IF mo = 2 THEN (IF IsLeap(y) THEN 29 ELSE 28)
  ELSE IF mo \in { 4, 6, 9, 11 } THEN 30 ELSE 31
\* date.toordinal(): 1 for 0001-01-01
ToOrdinal(y, mo, d) ==
  LET p == y - 1
  IN  p * 365 + (p \div 4) - (p \div 100) + (p \div 400)
      + DaysBeforeMonth[mo] + (IF mo > 2 /\ IsLeap(y) THEN 1 ELSE 0) + d

\* instants and wall-clock readings are minutes since 2020-01-01T00:00
Epoch == ToOrdinal(2020, 1, 1)

AllDigits(s, i, n) == \A k \in i..(i + n - 1) : IsDigit(s[k])
NumberAt(s, i, n) == DigitsValue(SubSeq(s, i, i + n - 1), 0)
\* HH:MM at position i
TimeShape(s, i) == AllDigits(s, i, 2) /\ s[i + 2] = ":" /\ AllDigits(s, i + 3, 2)

\* datetime.fromisoformat(s) for YYYY-MM-DD, YYYY-MM-DD*HH:MM and
\* YYYY-MM-DD*HH:MM+HH:MM (* is any one character); [ok |-> FALSE] stands
\* for ValueError.  local is the wall-clock reading, offset the UTC offset in
\* minutes, aware whether the string carries an offset.
NotADate == [ok |-> FALSE, aware |-> FALSE, local |-> 0, offset |-> 0]
FromIsoFormat(s) ==
  LET n == Len(s)
      shaped ==
        /\ n \in { 10, 16, 22 }
        /\ AllDigits(s, 1, 4) /\ s[5] = "-" /\ AllDigits(s, 6, 2) /\ s[8] = "-"
        /\ AllDigits(s, 9, 2)
        /\ (n >= 16) => TimeShape(s, 12)
        /\ (n = 22) => ((s[17] = "+" \/ s[17] = "-") /\ TimeShape(s, 18))
  IN  IF ~shaped THEN NotADate
      ELSE LET y == NumberAt(s, 1, 4)
               mo == NumberAt(s, 6, 2)
               d == NumberAt(s, 9, 2)
               h == IF n >= 16 THEN NumberAt(s, 12, 2) ELSE 0
               mi == IF n >= 16 THEN NumberAt(s, 15, 2) ELSE 0
               oh == IF n = 22 THEN NumberAt(s, 18, 2) ELSE 0
               om == IF n = 22 THEN NumberAt(s, 21, 2) ELSE 0
               sign == IF n = 22 /\ s[17] = "-" THEN 0 - 1 ELSE 1
           IN  IF /\ y >= 1 /\ mo \in 1..12
                  /\ h <= 23 /\ mi <= 59 /\ oh <= 23 /\ om <= 59
                  /\ d >= 1 /\ d <= DaysInMonth(y, mo)
               THEN [ok |-> TRUE, aware |-> (n = 22),
                     local |-> (ToOrdinal(y, mo, d) - Epoch) * MinutesPerDay + h * 60 + mi,
                     offset |-> sign * (oh * 60 + om)]
               ELSE NotADate

\* the point in time a converted date denotes, taking a date without offset as
\* a reading of the clock it is later compared with
Instant(dt) == dt.local - dt.offset

\* (now - dt).days for two readings without offset: timedelta.days rounds
\* towards minus infinity
ElapsedDays(now, dt) == (now - dt.local) \div MinutesPerDay

\* f"{n} year{'s' if n>1 else ''} ago"
Ago(n, unit) == IntText(n) \o unit \o (IF n > 1 THEN << "s" >> ELSE << >>) \o T_ago

\* (a faulty answer of tier 1, for comparison: it counts the elapsed days)
FormatElapsed_Days(days, days_again) ==
  IF days > 0 THEN Ago(days, << " ","d","a","y" >>) ELSE T_recently

\* tier 1: the years come from days, the months from days_again; variant A
\* computes both from one reading of the clock, variant B reads it twice
FormatElapsed(days, days_again) ==
  LET years == days \div DaysPerYear
      months == (days_again % DaysPerYear) \div DaysPerMonth
  IN  IF years > 0 THEN Ago(years, T_year)
      ELSE IF months > 0 THEN Ago(months, T_month)
      ELSE T_recently

\* A JSON-LD block of the markup is "skip" (not JSON, not an object, no
\* review key) or "reviews" with the datePublished values of its review
\* entries, << >> standing for an empty value.  Its script tag is "plain"
\* (exactly <script type="application/ld+json">) or "attrs" (other attributes
\* or quoting): the pattern of variant B finds only plain tags.
BlockSeen(v, b) == b.kind = "reviews" /\ (v = "A" \/ b.tag = "plain")
\* variant A keeps the truthy values, variant B every value present
DatesOf(v, b) ==
  IF v = "A" THEN SelectSeq(b.dates, LAMBDA t : Len(t) > 0) ELSE b.dates

NoHit == [hit |-> FALSE, out |-> << >>, oldest |-> << >>, days |-> << >>]
\* the loop over the JSON-LD blocks: a block whose oldest date does not
\* convert, or converts to a datetime with an offset (the subtraction from
\* the clock reading raises TypeError), is passed over
RECURSIVE TierOne(_, _, _, _, _)
TierOne(v, blocks, i, now, later) ==
  IF i > Len(blocks) THEN NoHit
  ELSE LET b == blocks[i]
           dates == IF BlockSeen(v, b) THEN DatesOf(v, b) ELSE << >>
       IN  IF Len(dates) = 0 THEN TierOne(v, blocks, i + 1, now, later)
           ELSE LET oldest == MinText(dates)
                    dt == FromIsoFormat(Replace(oldest, T_Z, T_utc))
                IN  IF dt.ok /\ ~dt.aware
                    THEN LET days == ElapsedDays(now, dt)
                             days_again == IF v = "A" THEN days ELSE ElapsedDays(later, dt)
                         IN  [hit |-> TRUE, out |-> FormatElapsed(days, days_again),
                              oldest |-> oldest, days |-> << days, days_again >>]
                    ELSE TierOne(v, blocks, i + 1, now, later)

\* r'(\d+)\s+years?\s+ago' with re.IGNORECASE matches starting at i (unit is
\* the unit word).  \d, \s and letters are disjoint, so a match from i takes
\* the whole run of digits from i and the optional s when it is there.
AgoMatchAt(s, i, unit) ==
  /\ IsDigit(s[i])
  /\ LET e == DigitRunEnd(s, i)
         u == SkipSpaces(s, e)
         p == u + Len(unit)
         q == IF p <= Len(s) /\ Lower(s[p]) = "s" THEN p + 1 ELSE p
     IN  /\ u > e
         /\ StartsAt(s, u, unit, TRUE)
         /\ q <= Len(s) /\ IsSpace(s[q])
         /\ StartsAt(s, SkipSpaces(s, q), W_ago, TRUE)
\* the numbers of re.findall: the non-overlapping matches from left to right
\* are the matches that start at the first digit of a run of digits
FindAll(s, unit) ==
  { ParseInt(SubSeq(s, i, DigitRunEnd(s, i) - 1)).val :
      i \in { k \in 1..Len(s) : /\ AgoMatchAt(s, k, unit)
                                /\ (k = 1 \/ ~IsDigit(s[k - 1])) } }
SetMax(ns) == CHOOSE n \in ns : \A k \in ns : k <= n

\* tier 2, from the numbers of the three findall calls
TierTwo(text) ==
  LET years == FindAll(text, W_year)
      months == FindAll(text, W_month)
      weeks == FindAll(text, W_week)
  IN  IF years # {} THEN Some(Ago(SetMax(years), T_year))
      ELSE IF months # {} THEN Some(Ago(SetMax(months), T_month))
      ELSE IF weeks # {} THEN Some(Ago(SetMax(weeks), T_week))
      ELSE None

\* re.search(r'(\d+)\s+years?', s, re.IGNORECASE), as an optional number
YearMatchAt(s, i) ==
  /\ IsDigit(s[i])
  /\ LET e == DigitRunEnd(s, i)
     IN  e <= Len(s) /\ IsSpace(s[e]) /\ StartsAt(s, SkipSpaces(s, e), W_year, TRUE)
YearNumber(s) ==
  IF \E i \in 1..Len(s) : YearMatchAt(s, i)
  THEN LET i == CHOOSE k \in 1..Len(s) :
                  YearMatchAt(s, k) /\ \A j \in 1..(k - 1) : ~YearMatchAt(s, j)
       IN  Some(ParseInt(SubSeq(s, i, DigitRunEnd(s, i) - 1)).val)
  ELSE None

\* e.text.strip() of the date elements whose stripped text is not empty
RECURSIVE VisibleTexts(_)
VisibleTexts(labels) ==
  IF Len(labels) = 0 THEN << >>
  ELSE (IF Len(Strip(labels[1])) > 0 THEN << Strip(labels[1]) >> ELSE << >>)
       \o VisibleTexts(Tail(labels))

\* (a faulty tier 3, for comparison: it returns the first label it sees)
BestLabel_First(visible, i, max_y, best) ==
  IF Len(visible) > 0 THEN Some(visible[1]) ELSE None

\* (a faulty tier 3, for comparison: on a tie the later label wins)
RECURSIVE BestLabel_LastOnTie(_, _, _, _)
BestLabel_LastOnTie(visible, i, max_y, best) ==
  IF i > Len(visible) THEN (IF max_y > 0 THEN best ELSE None)
  ELSE LET y == YearNumber(visible[i])
       IN  IF ~IsNone(y) /\ Val(y) >= max_y
           THEN BestLabel_LastOnTie(visible, i + 1, Val(y), Some(visible[i]))
           ELSE BestLabel_LastOnTie(visible, i + 1, max_y, best)

\* tier 3: the label with the largest year number, if that number is positive
RECURSIVE BestLabel(_, _, _, _)
BestLabel(visible, i, max_y, best) ==
  IF i > Len(visible) THEN (IF max_y > 0 THEN best ELSE None)
  ELSE LET y == YearNumber(visible[i])
       IN  IF ~IsNone(y) /\ Val(y) > max_y
           THEN BestLabel(visible, i + 1, Val(y), Some(visible[i]))
           ELSE BestLabel(visible, i + 1, max_y, best)
TierThree(m) ==
  IF IsNone(m.visible) THEN None ELSE BestLabel(VisibleTexts(Val(m.visible)), 1, 0, None)

\* _find_first_review_fast on markup m, the clock reading now at the first
\* reading and later at the second: a tier that raises is passed over.
\* m.reads[k] tells whether the k-th reading of driver.page_source succeeds,
\* m.visible is None when find_elements or the text of an element raises.  tier, oldest and days record
\* which tier answered and what tier 1 computed.
FindFirstReviewFast(v, m, now, later) ==
  LET t1 == IF m.reads[1] THEN TierOne(v, m.ld, 1, now, later) ELSE NoHit
      t2 == IF m.reads[2] THEN TierTwo(m.text) ELSE None
      t3 == TierThree(m)
  IN  IF t1.hit THEN [out |-> t1.out, tier |-> 1, oldest |-> t1.oldest, days |-> t1.days]
      ELSE IF ~IsNone(t2) THEN [out |-> Val(t2), tier |-> 2, oldest |-> << >>, days |-> << >>]
      ELSE IF ~IsNone(t3) THEN [out |-> Val(t3), tier |-> 3, oldest |-> << >>, days |-> << >>]
      ELSE [out |-> T_several, tier |-> 4, oldest |-> << >>, days |-> << >>]

\* The markups, date strings and clock readings the estimator is run on
Pad2(n) == IF n < 10 THEN << "0" >> \o IntText(n) ELSE IntText(n)
IsoDay(y, mo, d) == IntText(y) \o << "-" >> \o Pad2(mo) \o << "-" >> \o Pad2(d)
IsoTime(sep, h, mi) == << sep >> \o Pad2(h) \o << ":" >> \o Pad2(mi)
D_day == IsoDay(2020, 6, 1)
D_next == IsoDay(2020, 6, 2)
D_early == D_day \o IsoTime("T", 5, 0)
D_late == D_day \o IsoTime(" ", 23, 0)
D_zulu == D_early \o T_Z
D_east == D_next \o IsoTime("T", 1, 0) \o IsoTime("+", 5, 0)
D_utcLate == D_day \o IsoTime("T", 23, 0) \o T_utc
D_words == << "J","u","n","e" >>

SkipBlock == [kind |-> "skip", tag |-> "plain", dates |-> << >>]
Reviews(tag, dates) == [kind |-> "reviews", tag |-> tag, dates |-> dates]
DateLds ==
  { << >>,
    << SkipBlock >>,
    << Reviews("plain", << D_day >>) >>,
    << SkipBlock, Reviews("plain", << D_next, D_day >>) >>,
    << Reviews("plain", << D_early, D_late >>) >>,
    << Reviews("plain", << D_zulu >>) >>,
    << Reviews("plain", << D_east, D_utcLate >>), Reviews("plain", << D_day >>) >>,
    << Reviews("plain", << D_words >>) >>,
    << Reviews("plain", << << >>, D_day >>) >>,
    << Reviews("plain", << << >> >>) >>,
    << Reviews("attrs", << D_day >>) >> }

Phrase(n, unit, plural) ==
  IntText(n) \o unit \o (IF plural THEN << "s" >> ELSE << >>) \o T_ago
Join(s, t) == s \o << " " >> \o t
T_shout == << "1","2"," "," ","Y","E","A","R","S"," ","A","G","O" >>
T_days == << "6"," ","d","a","y","s"," ","a","g","o" >>
T_aMonth == << "a"," ","m","o","n","t","h"," ","a","g","o" >>
DateTexts ==
  { << >>, T_days, T_aMonth,
    Phrase(5, T_year, TRUE), Phrase(1, T_year, FALSE), Phrase(0, T_year, TRUE),
    Join(Phrase(3, T_month, TRUE), Phrase(2, T_year, TRUE)),
    Join(Phrase(7, T_year, TRUE), T_shout),
    Phrase(1, T_month, FALSE), Phrase(4, T_month, TRUE), Phrase(0, T_month, TRUE),
    Join(Phrase(9, T_week, TRUE), Phrase(3, T_month, TRUE)),
    Join(Phrase(2, T_week, TRUE), Phrase(1, T_week, FALSE)),
    Phrase(1, T_week, FALSE), Phrase(0, T_week, TRUE) }
DateVisibles ==
  { None, Some(<< >>), Some(<< T_aMonth >>), Some(<< << " " >>, T_days >>),
    Some(<< Phrase(0, T_year, TRUE) >>),
    Some(<< Phrase(1, T_year, FALSE), Phrase(3, T_year, TRUE),
            Join(Phrase(3, T_year, TRUE), T_days) >>),
    Some(<< Phrase(2, T_year, TRUE), << " " >> \o Phrase(5, T_year, TRUE) \o << " " >>,
            Phrase(1, T_month, FALSE) >>) }

Markup(reads, ld, text, visible) ==
  [reads |-> reads, ld |-> ld, text |-> text, visible |-> visible]
BothRead == << TRUE, TRUE >>
DateMarkups ==
  { Markup(BothRead, ld, << >>, None) : ld \in DateLds }
  \cup { Markup(BothRead, << >>, t, None) : t \in DateTexts }
  \cup { Markup(BothRead, << >>, << >>, vis) : vis \in DateVisibles }
  \cup { Markup(reads, << Reviews("plain", << d >>) >>, Phrase(5, T_year, TRUE),
                Some(<< Phrase(2, T_year, TRUE) >>)) :
           reads \in { BothRead, << FALSE, TRUE >>, << TRUE, FALSE >>, << FALSE, FALSE >> },
           d \in { D_day, D_zulu } }
  \cup { NoMarkup }

\* clock readings: the wall clock days and minutes after 2020-06-01T00:00
ClockAfter(days, minutes) ==
  (ToOrdinal(2020, 6, 1) - Epoch + days) * MinutesPerDay + minutes
\* the two readings of the clock of one run: variant A reads it once, variant
\* B twice, and midnight can fall between its two readings
Once(now) == [now |-> now, later |-> now]
DateClocks ==
  { Once(ClockAfter(0, 0) - 1), Once(ClockAfter(0, 600)), Once(ClockAfter(29, 1439)),
    Once(ClockAfter(45, 0)), Once(ClockAfter(364, 1439)), Once(ClockAfter(365, 10)),
    Once(ClockAfter(400, 0)), Once(ClockAfter(730, 5)),
    [now |-> ClockAfter(29, 1439), later |-> ClockAfter(30, 0)],
    [now |-> ClockAfter(364, 1439), later |-> ClockAfter(365, 0)] }
PipelineMarkups ==
  { NoMarkup,
    Markup(BothRead, << SkipBlock, Reviews("plain", << D_day >>) >>,
           Phrase(5, T_year, TRUE), None) }
PipelineClocks == { Once(ClockAfter(730, 5)) }

\* one call of _find_first_review_fast; a repeated call reads the same markup
\* at a later clock reading
FindFirstReview(markups, clocks) ==
  /\ pc = "date"
  /\ \E m \in markups, c \in clocks :
       LET r == FindFirstReviewFast(variant, m, c.now, c.later)
       IN  /\ (variant = "A") => (c.later = c.now)
           /\ (Len(runs) > 0) => (m = markup /\ c.now > runs[Len(runs)].later)
           /\ markup' = m
           /\ first_date' = Some(r.out)
           /\ result' = IF variant = "A"
                        THEN [result EXCEPT !.first_review_date = Some(r.out)]
                        ELSE result
           /\ runs' = Append(runs, [now |-> c.now, later |-> c.later, out |-> r.out,
                                    tier |-> r.tier, oldest |-> r.oldest, days |-> r.days])
  /\ dateRan' = dateRan + 1
  /\ pc' = IF variant = "A" THEN "assemble" ELSE "merge"
  /\ UNCHANGED << probe, missed, cand, inner, excAt, clicked, total_count, sortState, page,
                  review_elements, idx, negatives, seen, lastNode, collectRan >>
  /\ UNCHANGED callVars

-----------------------------------------------------------------------------
(* Result assembly, the handler and the cleanup of get_place_details *)

Returned(rec) == [kind |-> "place", keys |-> PlaceKeys, rec |-> rec]
ErrorRecord == [kind |-> "error", keys |-> { "error" }, rec |-> DefaultResult]

\* (a faulty assembly, for comparison: the count is returned as extracted)
Assemble_NoFix ==
  /\ pc = "assemble" /\ variant = "A"
  /\ result' = result /\ ret' = Returned(result)
  /\ pc' = "finally"
  /\ UNCHANGED << variant, fixture, driver, created, quits, probe, missed, cand, inner, excAt >>
  /\ UNCHANGED laterVars

\* A: if total_reviews == 0 and negatives: total_reviews = len(negatives); return
Assemble ==
  /\ pc = "assemble" /\ variant = "A"
  /\ LET final == IF result.total_reviews = 0 /\ Len(negatives) > 0
                  THEN [result EXCEPT !.total_reviews = Len(negatives)] ELSE result
     IN  result' = final /\ ret' = Returned(final)
  /\ pc' = "finally"
  /\ UNCHANGED << variant, fixture, driver, created, quits, probe, missed, cand, inner, excAt >>
  /\ UNCHANGED laterVars

\* B: the merge of reviews_data into business_info; return
Merge ==
  /\ pc = "merge" /\ variant = "B"
  /\ LET final == [result EXCEPT
                     !.recent_negative_reviews = negatives,
                     !.first_review_date = first_date,
                     !.total_reviews = IF @ = 0 /\ total_count # 0 THEN total_count ELSE @]
     IN  result' = final /\ ret' = Returned(final)
  /\ pc' = "finally"
  /\ probe' = NoProbe
  /\ UNCHANGED << variant, fixture, driver, created, quits, missed, cand, inner, excAt >>
  /\ UNCHANGED laterVars

\* except Exception as e: return {"error": ...}
\* (a faulty handler, for comparison: it returns the record filled so far)
HandleException_Partial ==
  /\ pc = "except"
  /\ ret' = Returned(result)
  /\ pc' = "finally"
  /\ UNCHANGED << variant, fixture, driver, created, quits, result, probe, missed, cand, inner, excAt >>
  /\ UNCHANGED laterVars
HandleException ==
  /\ pc = "except"
  /\ ret' = ErrorRecord
  /\ pc' = "finally"
  /\ UNCHANGED << variant, fixture, driver, created, quits, result, probe, missed, cand, inner, excAt >>
  /\ UNCHANGED laterVars

\* finally: self._close().  quit() may raise; the bare except swallows it.
\* (a faulty cleanup, for comparison: a failing quit() leaves self.driver set)
Close_KeepsDriver ==
  /\ pc = "finally"
  /\ \E quitRaises \in BOOLEAN :
       IF driver = "live"
       THEN quits' = quits + 1 /\ driver' = (IF quitRaises THEN "live" ELSE "none")
       ELSE quits' = quits /\ driver' = driver
  /\ pc' = "done"
  /\ UNCHANGED << variant, fixture, created, ret, result, probe, missed, cand, inner, excAt >>
  /\ UNCHANGED laterVars
Close ==
  /\ pc = "finally"
  /\ \E quitRaises \in BOOLEAN :
       IF driver = "live"
       THEN quits' = quits + 1 /\ driver' = "none"
       ELSE quits' = quits /\ driver' = driver
  /\ pc' = "done"
  /\ UNCHANGED << variant, fixture, created, ret, result, probe, missed, cand, inner, excAt >>
  /\ UNCHANGED laterVars

-----------------------------------------------------------------------------
(* Specifications *)

Next ==
  \/ SetupDriver
  \/ LoadPage
  \/ ExtractName
  \/ NameFromTitle
  \/ ExtractRating
  \/ ExtractReviewCount
  \/ ExtractReviewCountMore
  \/ ExtractAddress
  \/ ExtractPhone
  \/ ExtractWebsite
  \/ OpenReviews
  \/ SortReviews
  \/ SelectLowest
  \/ CollectBegin(PipelinePages)
  \/ CollectNode
  \/ CollectReturn
  \/ FindFirstReview(PipelineMarkups, PipelineClocks)
  \/ Assemble
  \/ Merge
  \/ HandleException
  \/ Close

Spec == Init /\ [][Next]_vars

\* the collector on its own: _extract_negative_reviews entered with a live
\* session and the reviews panel open
InitCollect ==
  /\ variant \in { "A", "B" }
  /\ fixture = NoFixture
  /\ pc = "collect"
  /\ driver = "live" /\ created = 1 /\ quits = 0
  /\ result = DefaultResult /\ ret = NoReturn
  /\ excAt = "none"
  /\ probe = NoProbe /\ missed = {} /\ cand = 1 /\ inner = 1
  /\ clicked = TRUE /\ total_count = 0 /\ sortState = "none"
  /\ page = << >> /\ review_elements = << >> /\ idx = 0
  /\ negatives = << >> /\ seen = {} /\ lastNode = NoNode
  /\ markup = NoMarkup /\ first_date = None
  /\ collectRan = 0 /\ dateRan = 0 /\ runs = << >>

NextCollect ==
  \/ CollectBegin(CollectorPages)
  \/ CollectNode
  \/ CollectReturn

SpecCollect == InitCollect /\ [][NextCollect]_vars

\* the estimator on its own: _find_first_review_fast entered with a live
\* session and the reviews panel open, and called again by the prompt loop of
\* main on the same page
MaxRuns == 2
InitDate ==
  /\ variant \in { "A", "B" }
  /\ fixture = NoFixture
  /\ pc = "date"
  /\ driver = "live" /\ created = 1 /\ quits = 0
  /\ result = DefaultResult /\ ret = NoReturn
  /\ excAt = "none"
  /\ probe = NoProbe /\ missed = {} /\ cand = 1 /\ inner = 1
  /\ clicked = TRUE /\ total_count = 0 /\ sortState = "none"
  /\ page = << >> /\ review_elements = << >> /\ idx = 0
  /\ negatives = << >> /\ seen = {} /\ lastNode = NoNode
  /\ markup = NoMarkup /\ first_date = None
  /\ collectRan = 1 /\ dateRan = 0 /\ runs = << >>

\* the next round of the prompt loop: a new extractor, a new result record
CallAgain ==
  /\ pc \in { "assemble", "merge" }
  /\ Len(runs) < MaxRuns
  /\ pc' = "date"
  /\ result' = DefaultResult /\ first_date' = None
  /\ UNCHANGED << markup, dateRan, runs >>
  /\ UNCHANGED << probe, missed, cand, inner, excAt, clicked, total_count, sortState, page,
                  review_elements, idx, negatives, seen, lastNode, collectRan >>
  /\ UNCHANGED callVars

NextDate ==
  \/ FindFirstReview(DateMarkups, DateClocks)
  \/ CallAgain

SpecDate == InitDate /\ [][NextDate]_vars

\* the rating loop and the review-count loop on their own, on a page whose
\* answers to the lookups of the loop are fixed
R_45 == << "4",".","5" >>
FieldRatingTexts ==
  RatingTexts \cup
  { R_45, << "4","." >>, << "4",",","5" >>, << ".","5" >>, << "4","5" >>,
    << "4",".","2","5" >>, << "4"," ","5" >>, << "4",".","5","/","5" >>, << " " >> }
FieldRatingOutcomes == { Gone } \cup { TextEl(t) : t \in FieldRatingTexts }
FieldCountLabels ==
  CountLabels \cup
  { << >>, L_open_89, << "1",",","2","3","4","r","e","v","i","e","w" >>,
    << "2"," ","s","t","a","r","s"," ","7"," ","r","e","v","i","e","w","s" >>,
    << "r","e","v","i","e","w","s",":"," ","5" >> }
FieldCountOutcomes ==
  { Gone, AttrEl(None) } \cup { AttrEl(Some(a)) : a \in FieldCountLabels }
FieldFixtures ==
  { [field |-> "rating", answers |-> << a, b >>] :
      a \in FieldRatingOutcomes, b \in FieldRatingOutcomes }
  \cup { [field |-> "total_reviews", answers |-> << a, b, c >>] :
           a \in FieldCountOutcomes, b \in FieldCountOutcomes, c \in FieldCountOutcomes }
InitFields ==
  /\ variant \in { "A", "B" }
  /\ fixture \in FieldFixtures
  /\ pc = IF fixture.field = "rating" THEN "rating" ELSE "count"
  /\ driver = "live" /\ created = 1 /\ quits = 0
  /\ result = DefaultResult /\ ret = NoReturn
  /\ excAt = "none"
  /\ probe = NoProbe /\ missed = {} /\ cand = 1 /\ inner = 1
  /\ clicked = FALSE /\ total_count = 0 /\ sortState = "none"
  /\ page = << >> /\ review_elements = << >> /\ idx = 0
  /\ negatives = << >> /\ seen = {} /\ lastNode = NoNode
  /\ markup = NoMarkup /\ first_date = None
  /\ collectRan = 0 /\ dateRan = 0 /\ runs = << >>

NextFields ==
  \/ ExtractRating
  \/ ExtractReviewCount

SpecFields == InitFields /\ [][NextFields]_vars

-----------------------------------------------------------------------------
(* Properties of get_place_details *)

Done == pc = "done"
ReturnedPlace == Done /\ ret.kind = "place"
CandidateFields == { "name", "rating", "total_reviews", "address", "phone", "website" }
FieldDefault(f) == DefaultResult[f]

\* C1: by the time a call of get_place_details returns, in either variant and
\* whatever step failed, the session is torn down: quit() is never invoked
\* without a driver, a created driver has been quit exactly once, and
\* self.driver is None.
C1_SessionTornDown ==
  /\ quits <= created
  /\ Done => (driver = "none" /\ quits = created)
\* a call that created a driver, failed while loading the page and returned
C1_Witness == Done /\ excAt = "load" /\ created = 1 /\ quits = 1 /\ driver = "none"

\* C2: an exception that escapes a step of the pipeline of get_place_details is
\* caught by the outermost handler and the call returns the record whose only
\* key is 'error': the call always returns a record, and after an exception
\* never a place record.
C2_ErrorRecordOnly ==
  /\ Done => ret.kind \in { "place", "error" }
  /\ (pc \in { "finally", "done" } /\ excAt # "none") =>
        (ret.kind = "error" /\ ret.keys = { "error" })
  /\ (pc \in { "finally", "done" } /\ excAt = "none") =>
        (ret.kind = "place" /\ ret.keys = PlaceKeys)
\* a call that returned the error record after the page load raised
C2_Witness == Done /\ excAt = "load" /\ ret.kind = "error" /\ ret.keys = { "error" }

\* C3: for each field of name, rating, review count, address, phone and
\* website: if every candidate of the field failed, the call returns a place
\* record in which the field has its default (None, 0 for the review count).
C3_MissLeavesDefault ==
  Done => \A f \in CandidateFields :
            f \in missed => (ret.kind = "place" /\ ret.rec[f] = FieldDefault(f))

\* C4: the candidates of name, rating, review count and phone are consulted
\* in list order, and no candidate is looked up after an accepted one: the
\* lookups of a loop are 1, 2, ... and only the last of them can be accepted,
\* so that a first candidate that resolves makes exactly one lookup.
OrderedFields == { "name", "rating", "total_reviews", "phone" }
C4_OrderedShortCircuit ==
  probe.field \in OrderedFields =>
    /\ Len(probe.acc) = Len(probe.lookups)
    /\ \A i \in 1..Len(probe.lookups) :
         /\ probe.lookups[i] = i
         /\ i < Len(probe.lookups) => ~probe.acc[i]
    /\ (Len(probe.acc) > 0 /\ probe.acc[1]) => Len(probe.lookups) = 1
\* the first phone candidate resolved and the phone loop is over
C4_Witness ==
  /\ pc = "website" /\ probe.field = "phone"
  /\ probe.lookups = << 1 >> /\ probe.acc = << TRUE >>
  /\ ~IsNone(result.phone)

\* C5: in every place record returned by get_place_details the rating is None
\* or a decimal in the closed range [0, 5].
C5_RatingInRange ==
  ReturnedPlace => (IsNone(ret.rec.rating) \/ InRange(Val(ret.rec.rating), 0, 5))

-----------------------------------------------------------------------------
(* Properties of _extract_negative_reviews *)

Samples == { negatives[k] : k \in 1..Len(negatives) }
Key80(text, rating) == << Prefix(text, 80), rating >>

\* the node handled last, what the collector read off it, and whether the
\* step appended a sample for it
Handled == lastNode.at > 0
LastNode == Pool(variant, review_elements)[lastNode.at]
LastDetected == IF variant = "A" THEN DetectRatingA(LastNode) ELSE DetectRatingB(LastNode)
LastRating == NodeRating(variant, LastNode)
LastText == FirstText(LastNode.texts)
LastAppended ==
  /\ Len(negatives) = lastNode.before + 1
  /\ negatives[Len(negatives)].text = Val(LastText)
  /\ negatives[Len(negatives)].rating = LastRating
LastSkipped == Len(negatives) = lastNode.before
\* no sample collected before the node has the node's key
LastIsNew ==
  \A k \in 1..lastNode.before :
    DedupeKey(variant, negatives[k].text, negatives[k].rating)
      # DedupeKey(variant, Val(LastText), LastRating)

\* C6: the list of negative reviews never has more than 10 entries, in the
\* collector and in the record, for any number of review nodes and in both
\* variants.
C6_AtMostTen ==
  /\ Len(negatives) <= 10
  /\ Len(result.recent_negative_reviews) <= 10
\* ten samples collected from a pool that holds more nodes than were handled
C6_Witness ==
  /\ pc = "collected" /\ Len(negatives) = 10
  /\ idx < Len(Pool(variant, review_elements))

\* C7: every sample of the negative-review list has rating 1 or 2, whatever
\* star annotation its node carries (a number 0 or none included), in both
\* variants.
C7_RatingOneOrTwo == \A s \in Samples : s.rating \in { 1, 2 }

\* C8: a node is skipped for its text exactly when no text is found or the
\* stripped text has fewer than 15 characters: every sample has a text of at
\* least 15 characters, and a node of rating at most 2 whose text has 15
\* characters or more and is no duplicate is collected, in both variants.
C8_SkippedIffShort ==
  /\ \A s \in Samples : Len(s.text) >= 15
  /\ (Handled /\ IsNegative(LastRating)) =>
        IF IsNone(LastText) \/ Len(Val(LastText)) < 15
        THEN LastSkipped
        ELSE LastIsNew => LastAppended

\* C9: the list never holds two samples with the same first 80 characters of
\* text and the same rating; and when two handled nodes yield the same first
\* 80 characters and the same rating, exactly one sample with these is in the
\* list, the one of the node met first.
Yields(i) ==
  LET node == Pool(variant, review_elements)[i]
  IN  /\ IsNegative(NodeRating(variant, node))
      /\ TextKept(variant, FirstText(node.texts))
NodeKey80(i) ==
  LET node == Pool(variant, review_elements)[i]
  IN  Key80(Val(FirstText(node.texts)), NodeRating(variant, node))
C9_OnePerKey ==
  /\ \A j, k \in 1..Len(negatives) :
       (j # k) => Key80(negatives[j].text, negatives[j].rating)
                   # Key80(negatives[k].text, negatives[k].rating)
  /\ \A i, j \in 1..idx :
       (i < j /\ Yields(i) /\ Yields(j) /\ NodeKey80(i) = NodeKey80(j)
         /\ \A h \in 1..(i - 1) : ~(Yields(h) /\ NodeKey80(h) = NodeKey80(i)))
       => /\ Cardinality({ k \in 1..Len(negatives) :
                             Key80(negatives[k].text, negatives[k].rating) = NodeKey80(i) }) = 1
          /\ \E k \in 1..Len(negatives) :
                negatives[k].text
                  = Val(FirstText(Pool(variant, review_elements)[i].texts))

\* C10: a node whose detected star rating is above 2 is never in the list, and
\* a node whose rating cannot be detected (no icon, no matching label, or the
\* icon lookup raising) is handled as rating 1 and appended when its text
\* passes the length check and is no duplicate.
C10_RatingFilter ==
  /\ \A s \in Samples : s.rating <= 2
  /\ (Handled /\ ~IsNone(LastDetected) /\ Val(LastDetected) > 2) => LastSkipped
  /\ (Handled /\ IsNone(LastDetected)) =>
        /\ LastRating = 1
        /\ (TextKept(variant, LastText) /\ LastIsNew) => LastAppended
\* a node with no star icon was appended with rating 1
C10_Witness ==
  /\ Handled /\ IsNone(LastDetected) /\ LastNode.stars = NoIcon
  /\ LastAppended /\ negatives[Len(negatives)].rating = 1

\* C11: on a page with 30 review nodes that all pass the rating, length and
\* duplicate filters the collector returns exactly 10 samples, those of the
\* first 10 nodes in page order; it stops as soon as the tenth is appended
\* (until then every node handled gave a sample), and it never handles more
\* than 30 nodes.
PassNode(node) ==
  /\ IsNegative(NodeRating(variant, node))
  /\ TextKept(variant, FirstText(node.texts))
NodeKey(node) == DedupeKey(variant, Val(FirstText(node.texts)), NodeRating(variant, node))
ThirtyPass ==
  /\ Len(review_elements) >= 30
  /\ \A i \in 1..30 : PassNode(review_elements[i])
  /\ Cardinality({ NodeKey(review_elements[i]) : i \in 1..30 }) = 30
C11_FirstTenOfThirty ==
  /\ idx <= 30
  /\ (ThirtyPass /\ pc = "nodes") => (idx < 10 /\ Len(negatives) = idx)
  /\ (ThirtyPass /\ pc = "collected") =>
        /\ idx = 10 /\ Len(negatives) = 10
        /\ \A k \in 1..10 :
             negatives[k].text = Val(FirstText(review_elements[k].texts))
\* the collector has returned from a page of exactly 30 passing nodes
C11_Witness ==
  /\ ThirtyPass /\ Len(review_elements) = 30
  /\ pc = "collected" /\ Len(negatives) = 10 /\ idx = 10

\* C12: when every candidate of the reviews tab fails, the call still returns
\* a place record, and the sort request, the negative-review collection and
\* the first-review-date estimation are skipped: no sort control is clicked,
\* neither method runs, and the list of negative reviews is empty.
C12_UnopenedSkipsRest ==
  (Done /\ excAt = "none" /\ ~clicked) =>
    /\ ret.kind = "place"
    /\ sortState = "none"
    /\ collectRan = 0 /\ dateRan = 0
    /\ Len(ret.rec.recent_negative_reviews) = 0
    /\ IsNone(ret.rec.first_review_date)

\* C16: a failing sub-step of one review node (the icon lookup, the expand
\* click, a text or date lookup raising) touches that node only: the loop
\* ends only when the pool is exhausted or the cap is reached, so the nodes
\* after it are still handled, and a step of the loop never drops or changes
\* a sample collected before.
NodeFails(node) ==
  \/ IsNone(node.stars)
  \/ node.expand = "raises"
  \/ \E k \in 1..Len(node.texts) : ~node.texts[k].found
  \/ \E k \in 1..Len(node.dates) : ~node.dates[k].found
LoopRanOut ==
  pc = "collected" =>
    \/ idx = Len(Pool(variant, review_elements))
    \/ Len(negatives) >= NEGATIVE_REVIEW_LIMIT
SamplesKept ==
  pc = "nodes" =>
    /\ Len(negatives') >= Len(negatives)
    /\ SubSeq(negatives', 1, Len(negatives)) = negatives
C16_NodeFailureContained == [](LoopRanOut) /\ [][SamplesKept]_vars
\* a node whose icon lookup and expand step raised was handled, and the node
\* after it gave a sample
C16_Witness ==
  /\ Handled /\ lastNode.at >= 2 /\ LastAppended
  /\ LET prev == Pool(variant, review_elements)[lastNode.at - 1]
     IN  IsNone(prev.stars) /\ prev.expand = "raises" /\ NodeFails(prev)

\* C17: once the reviews tab was clicked, a failing sort step (no sort control
\* found or clickable, no 'lowest' option found or clickable, a click raising)
\* raises nothing to the pipeline and leaves the reviews unsorted; the
\* collector and the date estimator still run, once each, and the call
\* returns a place record.
Unsorted == sortState \in { "none", "menu" }
C17_SortFailureContinues ==
  /\ (clicked /\ pc \in { "sort", "lowest", "collect", "nodes", "collected", "date" }) =>
        excAt = "none"
  /\ (clicked /\ Unsorted /\ pc \in { "date", "assemble", "merge", "finally", "done" }) =>
        (excAt = "none" /\ collectRan = 1)
  /\ (clicked /\ Unsorted /\ pc \in { "assemble", "merge", "finally", "done" }) =>
        dateRan = 1
  /\ (clicked /\ Unsorted /\ Done) => ret.kind = "place"
\* the sort menu opened but no 'lowest' option could be clicked, and the call
\* returned after collecting and estimating
C17_Witness ==
  /\ Done /\ clicked /\ sortState = "menu"
  /\ collectRan = 1 /\ dateRan = 1 /\ ret.kind = "place"

-----------------------------------------------------------------------------
(* The first-review-date estimator: properties *)

\* a block with review entries of which one carries a datePublished value
DatedBlock(b) ==
  b.kind = "reviews" /\ \E k \in 1..Len(b.dates) : Len(b.dates[k]) > 0

\* C13: when the markup can be read and holds a JSON-LD block with review
\* entries carrying a datePublished value, the answer is the one of tier 1
\* (the pattern scan of tier 2 and the labels of tier 3 are not consulted).
C13_MetadataWins ==
  \A k \in 1..Len(runs) :
    (markup.reads[1] /\ \E i \in 1..Len(markup.ld) : DatedBlock(markup.ld[i]))
      => runs[k].tier = 1

\* metadata tier 1 can use: a block the variant sees whose oldest date
\* converts to a datetime without offset
UsableBlock(v, b) ==
  /\ BlockSeen(v, b)
  /\ Len(DatesOf(v, b)) > 0
  /\ LET dt == FromIsoFormat(Replace(MinText(DatesOf(v, b)), T_Z, T_utc))
     IN  dt.ok /\ ~dt.aware
UsableMetadata(v, m) ==
  m.reads[1] /\ \E i \in 1..Len(m.ld) : UsableBlock(v, m.ld[i])
\* the page source, if it can be read, has an 'N years/months/weeks ago'
AgoPhrase(m) ==
  m.reads[2] /\ \E unit \in { W_year, W_month, W_week } : FindAll(m.text, unit) # {}
\* a visible date label, if the labels can be read, carries a year count
YearLabel(m) ==
  /\ ~IsNone(m.visible)
  /\ \E k \in 1..Len(Val(m.visible)) : ~IsNone(YearNumber(Strip(Val(m.visible)[k])))

\* C14: with no usable metadata, no 'N years/months/weeks ago' in the page
\* source and no visible label with a year count, the answer is exactly
\* 'Several years ago'; reading the page source or the date elements raising
\* counts as finding nothing.
C14_Fallback ==
  \A k \in 1..Len(runs) :
    (~UsableMetadata(variant, markup) /\ ~AgoPhrase(markup) /\ ~YearLabel(markup))
      => (runs[k].out = T_several /\ runs[k].tier = 4)
C14_Witness ==
  /\ Len(runs) > 0
  /\ ~markup.reads[1] /\ ~markup.reads[2] /\ IsNone(markup.visible)
  /\ runs[Len(runs)].out = T_several
  /\ first_date = Some(T_several)

\* the year and month counts tier 1 derived from the elapsed days of a run
YearsOf(r) == r.days[1] \div DaysPerYear
MonthsOf(r) == (r.days[2] % DaysPerYear) \div DaysPerMonth

Label(n, unit) == IntText(n) \o unit \o (IF n = 1 THEN << >> ELSE << "s" >>) \o T_ago
\* what the elapsed days d stand for: years if at least one, else months if at
\* least one, else 'Recently'
ElapsedLabel(d) ==
  IF d \div DaysPerYear >= 1 THEN Label(d \div DaysPerYear, T_year)
  ELSE IF (d % DaysPerYear) \div DaysPerMonth >= 1
       THEN Label((d % DaysPerYear) \div DaysPerMonth, T_month)
       ELSE T_recently

\* C18: an answer of tier 1 is the label of the whole days elapsed between the
\* date used and the current time: 'N years ago' with N = days // 365 if
\* N >= 1, else 'N months ago' with N = (days % 365) // 30 if N >= 1, else
\* 'Recently' (the current time being either of the readings of the clock the
\* run made).
C18_ElapsedLabel ==
  \A k \in 1..Len(runs) :
    runs[k].tier = 1 =>
      \E r \in 1..2 : runs[k].out = ElapsedLabel(runs[k].days[r])

\* the block tier 1 answered from
AnsweringBlock(v, m) ==
  m.ld[CHOOSE i \in 1..Len(m.ld) :
         UsableBlock(v, m.ld[i]) /\ \A j \in 1..(i - 1) : ~UsableBlock(v, m.ld[j])]
Converted(t) == FromIsoFormat(Replace(t, T_Z, T_utc))

\* C19: the date tier 1 computes the elapsed time from is the chronologically
\* earliest of the dates of the block it answers from: no date of the block
\* that converts denotes an earlier point in time.
C19_EarliestDate ==
  \A k \in 1..Len(runs) :
    runs[k].tier = 1 =>
      LET dates == DatesOf(variant, AnsweringBlock(variant, markup))
      IN  \A n \in 1..Len(dates) :
            Converted(dates[n]).ok =>
              Instant(Converted(runs[k].oldest)) <= Instant(Converted(dates[n]))

\* C20: an answer of tier 2 is 'N year(s) ago' with N the largest number of
\* the year matches if there are any, else the same from the month matches,
\* else from the week matches; the unit word is singular exactly when N is 1.
C20_PatternScan ==
  \A k \in 1..Len(runs) :
    runs[k].tier = 2 =>
      LET years == FindAll(markup.text, W_year)
          months == FindAll(markup.text, W_month)
          weeks == FindAll(markup.text, W_week)
      IN  runs[k].out = IF years # {} THEN Label(SetMax(years), T_year)
                        ELSE IF months # {} THEN Label(SetMax(months), T_month)
                        ELSE Label(SetMax(weeks), T_week)

\* the stripped, non-empty texts of the date labels and their year numbers
\* (0 for a text without '<N> year')
LabelTexts(m) == IF IsNone(m.visible) THEN << >> ELSE VisibleTexts(Val(m.visible))
LabelYears(t) == IF IsNone(YearNumber(t)) THEN 0 ELSE Val(YearNumber(t))
\* the first label whose year number is the largest one
TopLabel(ts) ==
  ts[CHOOSE k \in 1..Len(ts) :
       /\ \A j \in 1..Len(ts) : LabelYears(ts[j]) <= LabelYears(ts[k])
       /\ \A j \in 1..(k - 1) : LabelYears(ts[j]) < LabelYears(ts[k])]

\* C21: when tiers 1 and 2 do not answer, tier 3 answers with the text of the
\* date label with the largest year number N, as read (the first such label
\* on a tie), provided some label has N >= 1; otherwise tier 3 returns nothing
\* and the answer is the fallback 'Several years ago'.
C21_LargestYearLabel ==
  \A k \in 1..Len(runs) :
    (runs[k].tier # 1 /\ runs[k].tier # 2) =>
      LET ts == LabelTexts(markup)
      IN  IF \E n \in 1..Len(ts) : LabelYears(ts[n]) >= 1
          THEN runs[k].tier = 3 /\ runs[k].out = TopLabel(ts)
          ELSE runs[k].tier = 4 /\ runs[k].out = T_several
C21_Witness ==
  /\ Len(runs) > 0
  /\ runs[Len(runs)].tier = 3
  /\ LET ts == LabelTexts(markup)
     IN  /\ \E i \in 1..Len(ts), j \in 1..Len(ts) :
               /\ i < j /\ ts[i] # ts[j]
               /\ ts[i] = TopLabel(ts)
               /\ LabelYears(ts[i]) = LabelYears(ts[j])
         /\ runs[Len(runs)].out = TopLabel(ts)

-----------------------------------------------------------------------------
(* The container choice, the rating parser and the review-count parser *)

\* the container selectors of the page whose lookup returned a list
Answering(pg) == { i \in 1..Len(pg.containers) : ~IsNone(pg.containers[i]) }
Hits(pg, i) == Len(Val(pg.containers[i]))
\* the container lookups were made: in variant B a raising scroll ends the
\* method before them
ContainersRead ==
  /\ pc \in { "nodes", "collected" }
  /\ ~(variant = "B" /\ page.scroll = "raises")

Numeric(t) ==
  /\ Len(t) > 0 /\ IsDigit(t[1])
  /\ \A i \in 1..Len(t) : IsDigit(t[i]) \/ t[i] = "."
  /\ Cardinality({ i \in 1..Len(t) : t[i] = "." }) <= 1
\* the rating loop runs, or has just run, on the fixed answers
RatingLoop == fixture.field = "rating" /\ probe.field = "rating"
RatingLoopOver == RatingLoop /\ pc # "rating"
RatingAnswer(i) == fixture.answers[probe.lookups[i]]

\* C23: a rating candidate is accepted only if its element is found and its
\* whole trimmed text is a decimal literal, and the text '4.5' is accepted; a
\* candidate with any other text is rejected without an exception and the
\* next candidate is tried; the rating is the value of the accepted text
\* (4.5 for '4.5') and stays None if no candidate is accepted.
C23_StrictRating ==
  RatingLoop =>
    /\ excAt = "none"
    /\ \A i \in 1..Len(probe.lookups) :
         LET o == RatingAnswer(i)
         IN  /\ probe.acc[i] => (o.found /\ Numeric(Strip(o.text)))
             /\ (o.found /\ Strip(o.text) = R_45) => probe.acc[i]
             /\ (~probe.acc[i] /\ probe.lookups[i] < RatingCandidates)
                  => (Len(probe.lookups) > i \/ (pc = "rating" /\ cand = probe.lookups[i] + 1))
             /\ (probe.acc[i] /\ Strip(o.text) = R_45 /\ pc # "rating")
                  => result.rating = Some([whole |-> 4, frac |-> << "5" >>])
    /\ (pc # "rating" /\ \A i \in 1..Len(probe.lookups) : ~probe.acc[i])
         => (IsNone(result.rating) /\ Len(probe.lookups) = RatingCandidates)
C23_Witness ==
  /\ RatingLoopOver
  /\ Len(probe.lookups) = 2
  /\ RatingAnswer(1).found /\ ~Numeric(Strip(RatingAnswer(1).text)) /\ ~probe.acc[1]
  /\ RatingAnswer(2).text = R_45 /\ probe.acc[2]
  /\ result.rating = Some([whole |-> 4, frac |-> << "5" >>])

\* the review-count loop runs, or has just run, on the fixed answers
CountLoop == fixture.field = "total_reviews" /\ probe.field = "total_reviews"
CountAnswer(i) == fixture.answers[probe.lookups[i]]
\* the integer written right before the word 'review' in an annotation, its
\* commas dropped; None if no digit is written there
WrittenCount(aria) ==
  IF IsNone(aria) \/ IsNone(ReviewGroup(Val(aria))) THEN None
  ELSE LET ds == SelectSeq(Val(ReviewGroup(Val(aria))), IsDigit)
       IN  IF Len(ds) = 0 THEN None ELSE Some(DigitsValue(ds, 0))

\* C24: for every annotation the review-count loop reads, _parse_int_from_aria
\* does not raise and returns the integer written right before 'review'
\* (commas removed), or None when no number is written there.
C24_CountParser ==
  CountLoop =>
    \A i \in 1..Len(probe.lookups) :
      CountAnswer(i).found =>
        LET p == ParseIntFromAria(CountAnswer(i).attr)
        IN  ~p.raises /\ p.val = WrittenCount(CountAnswer(i).attr)

-----------------------------------------------------------------------------
(* The record of GoogleMapsExtractorA *)

\* C25: in GoogleMapsExtractorA, every candidate of the reviews-tab loop
\* that resolves to a present button has a script click sent to that button,
\* whatever its aria-label holds: reading the count from the label does not
\* stand in the way of the click.
C25_PresentButtonClicked ==
  (variant = "A" /\ probe.field = "open") =>
    \A i \in 1..Len(probe.lookups) :
      probe.acc[i] => \E k \in 1..Len(probe.clicks) : probe.clicks[k] = probe.lookups[i]

\* C26: the record GoogleMapsExtractorA returns without an error has a
\* total_reviews that is a non-negative integer and is 0 only if the list of
\* negative reviews is empty; when no count was extracted and negative reviews
\* were collected, total_reviews is the number of collected negative reviews.
C26_TotalReviews ==
  [][ (pc = "assemble" /\ variant = "A") =>
        /\ ret'.kind = "place"
        /\ ret'.rec.total_reviews \in Nat
        /\ ret'.rec.total_reviews = 0 => Len(ret'.rec.recent_negative_reviews) = 0
        /\ (result.total_reviews = 0 /\ Len(negatives) > 0) =>
              /\ ret'.rec.recent_negative_reviews = negatives
              /\ ret'.rec.total_reviews = Len(negatives) ]_vars
C26_Witness ==
  /\ ReturnedPlace /\ variant = "A"
  /\ "total_reviews" \in missed
  /\ Len(ret.rec.recent_negative_reviews) > 0
  /\ ret.rec.total_reviews = Len(ret.rec.recent_negative_reviews)

\* C27: the record GoogleMapsExtractorA returns without an error has a
\* first_review_date that is a non-empty text, also when the reviews tab
\* could not be opened; the estimator runs exactly once in such a call, and
\* only after the collection of the negative reviews.
C27_FirstDateSet ==
  variant = "A" =>
    /\ dateRan <= 1 /\ collectRan <= 1
    /\ (pc = "date" \/ dateRan = 1) => collectRan = 1
    /\ ReturnedPlace =>
         /\ dateRan = 1
         /\ ~IsNone(ret.rec.first_review_date)
         /\ Len(Val(ret.rec.first_review_date)) > 0
         /\ ret.rec.first_review_date = first_date
C27_Witness ==
  /\ ReturnedPlace /\ variant = "A"
  /\ ~clicked
  /\ dateRan = 1 /\ collectRan = 1
  /\ ret.rec.first_review_date = Some(T_several)

=============================================================================
